---- MODULE Spec2Model ----
(***************************************************************************)
(* Model of the botloader per-guild script runtime and scheduler:          *)
(*   - the scheduled-task Manager (cmd/scheduler/scheduled_task_manager.rs)*)
(*     over the timer store,                                               *)
(*   - the schedule_task op (components/runtime/extensions/tasks.rs),      *)
(*   - the Vm run loop and its VmShutdownHandle (components/vm/vm.rs),     *)
(*   - the script_start op (components/runtime/src/lib.rs),                *)
(*   - try_guild_add_script_plugin (components/stores/postgres/config.rs). *)
(* Each part has its own specification over its own variables; the other   *)
(* variables stay at their initial values.                                 *)
(***************************************************************************)
EXTENDS Integers, Sequences, FiniteSets, TLC

VARIABLES
    \* ---- timer store and clock (shared by the Manager and the task ops)
    store,            \* set of ScheduledTask rows of this guild
    next_id,          \* next row id the store hands out
    now,              \* Utc::now(), in whole time units
    \* ---- Manager (scheduled_task_manager.rs)
    next_task_time,   \* Option<Option<DateTime>>
    pending,          \* Vec<u64>
    task_names,       \* Vec<String>
    tm_pc,            \* where the Manager is: "idle", "na_match" (next_action after
                      \* its first await), "ack" (ack_triggered_task in its loop)
    ack_id,           \* the id ack_triggered_task was called with
    ret,              \* the action returned by the next_action call that has just
                      \* returned (NoCall in every other state)
    new_task_events,  \* TRUE when a RuntimeEvent::NewTaskScheduled is queued (the
                      \* handler's reaction is idempotent, so one flag stands for
                      \* any number of queued events)
    \* ---- observers of the Manager (history, not program state)
    inflight,         \* ids returned in a Run and not acked / cleared since
    unacked,          \* ids returned in a Run that the handler has not acked yet
    awaiting_announce,\* TRUE from a restart until the next script_started
    restart_inflight, \* the ids that were pending at the last restart and have
                      \* not been acked since
    na_prev,          \* while next_action is under way: what the call before it
                      \* returned, if nothing happened between the two calls
                      \* (NoCall otherwise, and in every other state)
    \* ---- op_bl_schedule_task calls of the guild's scripts (tasks.rs)
    sc_pc,            \* per call slot: "idle", "count" (before get_task_count),
                      \* "create" (before create_task)
    sc_opts,          \* per call slot: the CreateScheduledTask it was called with
    sc_result,        \* per call slot: how its last call ended
    sc_calls,         \* calls started so far
    nts_sent,         \* RuntimeEvent::NewTaskScheduled sent by these calls
    \* ---- one guild VM (components/vm/src/vm.rs)
    vm_pc,            \* where the VM task stands (see the Vm actions)
    js_ctx,           \* while vm_pc = "js": what entered the interpreter
    spin,             \* flips on every further step of a running script
    rs_todo,          \* script ids the current run_script loop still has to run
    rs_cont,          \* who runs that loop: "create", "cmd" or "restart"
    drain_for,        \* who called stop_vm: "restart" or "exit"
    new_scripts,      \* the script list of the create / restart under way
    cur_evt,          \* evt_id of the DispatchEvent being handled, 0 if none
    rx,               \* Vm::rx, the queued VmCommands
    tx,               \* the VmEvents sent on Vm::tx so far
    script_store,     \* Vm::script_store, a sequence of ScriptStates
    runtime,          \* Vm::runtime, the number of the isolate the VM owns
    heap_limit,       \* heap limit of that isolate
    ev,               \* its event loop: "idle", "pending" (an op is out),
                      \* "ready" (a callback can run)
    term_pending,     \* terminate_execution was requested on that isolate
    completed,        \* the `completed` flag handed to the next TickFuture
    exit_reason,      \* the shutdown_reason read after the loop
    terminated,       \* VmShutdownHandle::terminated
    shutdown_reason,  \* ShutdownHandleInner::shutdown_reason
    isolate_handle,   \* ShutdownHandleInner::isolate_handle (isolate number)
    wakeups,          \* messages in the wakeup channel
    sh_pc,            \* an external shutdown_vm call: "idle" or "locked"
    sh_force,         \* its force argument while it holds the lock
    cmds_sent,        \* VmCommands sent so far
    sh_calls,         \* external shutdown_vm calls so far
    oom_calls,        \* near-heap-limit callbacks so far
    guild_log,        \* "Script compilation failed" entries written to the
                      \* guild logger so far
    err_log,          \* the error entry the latest step of the VM task wrote
                      \* to it: "compile", "load", "eval", "script", "stop",
                      \* or "none"
    cell,             \* the process-wide IsolateCell: the VMs inside it, of
                      \* this VM ("self") and the VM of another guild ("other")
    rx_closed,        \* every sender of the command channel was dropped
    \* ---- observers of the VM (history, not program state)
    incarnation,      \* restarts begun so far
    accepted,         \* reasons of the shutdown_vm calls that found a handle
    forced,           \* a shutdown_vm(_, true) that found a handle has returned
    handled,          \* evt_ids whose handler was called, in call order
    oom_on,           \* isolates whose near-heap-limit callback has fired
    loads,            \* per script id: module loads in the current isolate
    work,             \* the interpreter was entered since the last VmFinished
    \* ---- op_botloader_script_start calls (components/runtime/src/lib.rs)
    ss_events,        \* the RuntimeEvent::ScriptStarted(meta) sent on event_tx
    ss_handled,       \* how many of them the guild handler has received
    ss_result,        \* what the last call returned
    ss_log,           \* the entries the op wrote to the guild logger
    ss_calls,         \* calls made so far
    \* ---- the execute_at conversion of op_bl_schedule_task (tasks.rs 33-37)
    cv_in,            \* opts.execute_at.0, milliseconds
    cv_out,           \* the DateTime<Utc> made of it, or the panic
    \* ---- try_guild_add_script_plugin (components/stores/src/postgres/config.rs)
    db_scripts,       \* the committed guild_scripts rows of the guild: how many
                      \* have no plugin_id, and the plugin_ids of the others
    db_plugins,       \* the ids in the plugins table
    tx_rows,          \* plugin_ids of the rows inserted in the open transaction
    ap_pc,            \* where the call stands: "idle", "scripts", "plugin",
                      \* "count", "insert", "return"
    ap_plugin,        \* the plugin_id it was called with
    ap_result,        \* what the last call returned
    ap_calls          \* calls made so far

tmvars == <<store, next_id, now, next_task_time, pending, task_names, tm_pc,
            ack_id, ret, new_task_events, inflight, unacked, awaiting_announce,
            restart_inflight, na_prev>>

scvars == <<sc_pc, sc_opts, sc_result, sc_calls, nts_sent>>

plvars == <<db_scripts, db_plugins, tx_rows, ap_pc, ap_plugin, ap_result,
            ap_calls>>

opvars == <<ss_events, ss_handled, ss_result, ss_log, ss_calls, cv_in, cv_out,
            db_scripts, db_plugins, tx_rows, ap_pc, ap_plugin, ap_result,
            ap_calls>>

vmvars == <<vm_pc, js_ctx, spin, rs_todo, rs_cont, drain_for, new_scripts,
            cur_evt, rx, tx, script_store, runtime, heap_limit, ev,
            term_pending, completed, exit_reason, terminated, shutdown_reason,
            isolate_handle, wakeups, sh_pc, sh_force, cmds_sent, sh_calls,
            oom_calls, guild_log, err_log, cell, rx_closed, incarnation,
            accepted, forced, handled, oom_on, loads, work>>

vars == <<store, next_id, now, next_task_time, pending, task_names, tm_pc,
          ack_id, ret, new_task_events, inflight, unacked, awaiting_announce,
          restart_inflight, na_prev, sc_pc, sc_opts, sc_result, sc_calls, nts_sent,
          vm_pc, js_ctx, spin, rs_todo, rs_cont, drain_for, new_scripts,
          cur_evt, rx, tx, script_store, runtime, heap_limit, ev, term_pending,
          completed, exit_reason, terminated, shutdown_reason, isolate_handle,
          wakeups, sh_pc, sh_force, cmds_sent, sh_calls, oom_calls, guild_log,
          err_log, cell, rx_closed, incarnation, accepted, forced, handled,
          oom_on, loads, work, ss_events, ss_handled, ss_result, ss_log,
          ss_calls, cv_in, cv_out, db_scripts, db_plugins, tx_rows, ap_pc,
          ap_plugin, ap_result, ap_calls>>

----------------------------------------------------------------------------
(* Bounds of the model *)
MaxTime == 2          \* the clock runs 0..MaxTime
MaxTasks == 2         \* rows the store ever creates
NumCallers == 2       \* schedule_task calls in flight at once
MaxSchedCalls == 3    \* schedule_task calls made in all
DataSizeLimit == 1    \* limits::tasks_data_size of the guild's plan
TaskCountLimit == 1   \* limits::tasks_scheduled_count of the guild's plan
MaxDispatch == 2      \* DispatchEvent commands sent to the VM
MaxScriptCmds == 1    \* Restart / LoadScript / UpdateScript / UnloadScripts sent
MaxShutdownCalls == 1 \* external shutdown_vm calls
MaxOom == 1           \* near-heap-limit callbacks
MaxOomHeap == 3       \* near-heap-limit callbacks where only they are studied
MaxStartCalls == 2    \* op_botloader_script_start calls
MaxVerrs == 2         \* validation errors of one command
MaxAddCalls == 2      \* try_guild_add_script_plugin calls
MaxLoadCmds == 2      \* LoadScript commands sent where only LoadScript is sent

(* Program constants *)
StoreRetrySecs == 10  \* Wait(now + 10 s) after a store error
GUILD_SCRIPT_COUNT_LIMIT == 100
InitialHeapLimit == 31457280  \* heap_limits(512 * 1024, 60 * 512 * 1024): the
                              \* limit the near-heap-limit callback starts from

Namespaces == {"x", "z"}
NoKey == "-"                      \* unique_key = None
Keys == {NoKey, "k"}
FireTimes == {0, 1}               \* fire_at of the tasks scripts create

----------------------------------------------------------------------------
(* Sequence helpers *)
Range(s) == {s[i] : i \in 1 .. Len(s)}

Contains(s, e) == \E i \in 1 .. Len(s) : s[i] = e

\* Vec::swap_remove(index): the last element takes the removed element's place
SwapRemove(s, i) ==
    IF i = Len(s) THEN SubSeq(s, 1, Len(s) - 1)
    ELSE [j \in 1 .. (Len(s) - 1) |-> IF j = i THEN s[Len(s)] ELSE s[j]]

\* index of the first element equal to e, 0 if none (iter().enumerate().find_map)
FirstIndex(s, e) ==
    IF Contains(s, e) THEN CHOOSE i \in 1 .. Len(s) :
                               s[i] = e /\ \A j \in 1 .. (i - 1) : s[j] # e
    ELSE 0

MinOf(S) == CHOOSE m \in S : \A o \in S : m <= o

\* the rows of a set as a sequence in id order (the order the store returns them)
RECURSIVE RowsById(_)
RowsById(S) ==
    IF S = {} THEN <<>>
    ELSE LET r == CHOOSE r \in S : \A o \in S : r.id <= o.id
         IN <<r>> \o RowsById(S \ {r})

----------------------------------------------------------------------------
(* The timer store (scheduler::Store / TimerStore) *)

\* the cursor value and the results of next_action
NotFetched == [tag |-> "NotFetched"]            \* next_task_time = None
NoTask == [tag |-> "NoTask"]                    \* Some(None)
At(t) == [tag |-> "At", t |-> t]                \* Some(Some(t))

NoCall == [kind |-> "NoCall"]
ActNone == [kind |-> "None"]
ActWait(t) == [kind |-> "Wait", until |-> t]
ActRun(v) == [kind |-> "Run", tasks |-> v]

Eligible(st, ignore_ids, names) ==
    {t \in st : ~Contains(ignore_ids, t.id) /\ Contains(names, t.namespace)}

\* earliest fire_at of a row whose id is not ignored and whose namespace is included
get_next_task_time(st, ignore_ids, names) ==
    IF Eligible(st, ignore_ids, names) = {} THEN NoTask
    ELSE At(MinOf({t.fire_at : t \in Eligible(st, ignore_ids, names)}))

\* all rows with fire_at <= t, id not ignored, namespace included
get_triggered_tasks(st, t, ignore_ids, names) ==
    RowsById({r \in Eligible(st, ignore_ids, names) : r.fire_at <= t})

\* upsert on (namespace, unique_key) when a key is given, else a new row
create_task(st, id, ns, key, fire_at) ==
    IF key # NoKey /\ \E r \in st : r.namespace = ns /\ r.unique_key = key
    THEN {IF r.namespace = ns /\ r.unique_key = key
          THEN [r EXCEPT !.fire_at = fire_at] ELSE r : r \in st}
    ELSE st \cup {[id |-> id, namespace |-> ns, unique_key |-> key,
                   fire_at |-> fire_at]}

del_task_by_id(st, id) == {r \in st : r.id # id}

get_task_count(st) == Cardinality(st)

StoredIds == {r.id : r \in store}

----------------------------------------------------------------------------
(* Manager *)

\* Manager::new
ManagerNew ==
    /\ next_task_time = NotFetched
    /\ pending = <<>>
    /\ task_names = <<>>
    /\ tm_pc = "idle"
    /\ ack_id = 0
    /\ ret = NoCall

\* mutant: clear_next records "no task remaining"
clear_next_NoTask == NoTask

\* clear_next
clear_next == NotFetched

IdsOf(v) == {v[i].id : i \in 1 .. Len(v)}

\* mutant: the comparison of line 55 reversed
IsDue_Reversed(n, t) == n < t

\* line 55: Utc::now() > t
IsDue(n, t) == n > t

\* mutant: the caller is told to come back at once
RetryWait_Now(n) == ActWait(n)

\* lines 46 and 77: Wait(Utc::now() + 10 s)
RetryWait(n) == ActWait(n + StoreRetrySecs)

\* mutant: the next task time is asked for without the pending ids
FetchQuery_IgnorePending(st, p, names) == get_next_task_time(st, <<>>, names)

\* lines 36-39: the next task time is asked for with &self.pending, &self.task_names
FetchQuery(st, p, names) == get_next_task_time(st, p, names)

\* mutant: the query is made without the pending ids
TriggerQuery_IgnoreNothing(st, t, p, names) ==
    get_triggered_tasks(st, t, <<>>, names)

\* mutant: the query is made without the namespace filter of the Manager
TriggerQuery_AllNames(st, t, p, names) ==
    get_triggered_tasks(st, t, p, <<"x", "z">>)

\* lines 57-65: the triggered tasks are asked for with &self.pending, &self.task_names
TriggerQuery(st, t, p, names) == get_triggered_tasks(st, t, p, names)

\* mutant: script_started leaves the cursor as it is
CursorKept(c) == c

\* line 142: script_started ends with clear_next
CursorAfterScriptStarted(c) == clear_next

\* mutant: the returned ids are not recorded
PushAll_Nothing(p, v) == p

\* the ids of the returned rows are pushed onto pending, in order
PushAll(p, v) == p \o [i \in 1 .. Len(v) |-> v[i].id]

\* mutant: script_started pushes every name
AddNames_Append(names, new) == names \o new

\* script_started: every name not yet contained is pushed
RECURSIVE AddNames(_, _)
AddNames(names, new) ==
    IF new = <<>> THEN names
    ELSE AddNames(IF Contains(names, Head(new)) THEN names
                  ELSE Append(names, Head(new)), Tail(new))

\* mutant: ack leaves pending as it is
AckRemove_Kept(p, id) == p

\* ack_triggered_task, before its loop: the first occurrence of id is swap-removed
AckRemove(p, id) ==
    IF FirstIndex(p, id) # 0 THEN SwapRemove(p, FirstIndex(p, id)) ELSE p

\* next_action, lines 34-49: the cursor is not fetched, the store is asked.
\* ok = FALSE is a store error: Wait(now + 10 s) is returned, nothing is cached.
NextActionFetch(ok) ==
    /\ tm_pc = "idle"
    /\ next_task_time = NotFetched
    /\ IF ok
       THEN /\ next_task_time' = FetchQuery(store, pending, task_names)
            /\ tm_pc' = "na_match"
            /\ ret' = NoCall
       ELSE /\ ret' = RetryWait(now)
            /\ UNCHANGED <<next_task_time, tm_pc>>
    /\ na_prev' = IF ok THEN ret ELSE NoCall
    /\ UNCHANGED <<store, next_id, now, pending, task_names, ack_id,
                   new_task_events, inflight, unacked, awaiting_announce,
                   restart_inflight>>
    /\ UNCHANGED <<scvars, opvars, vmvars>>

\* next_action, lines 51-84: the match on the (now fetched) cursor
NextActionMatch(ok) ==
    /\ \/ tm_pc = "na_match"
       \/ tm_pc = "idle" /\ next_task_time # NotFetched
    /\ tm_pc' = "idle"
    /\ IF next_task_time = NoTask
       THEN /\ ret' = ActNone
            /\ UNCHANGED <<next_task_time, pending, inflight, unacked>>
       ELSE IF IsDue(now, next_task_time.t)
       THEN IF ok
            THEN LET v == TriggerQuery(store, now, pending, task_names)
                 IN /\ pending' = PushAll(pending, v)
                    /\ next_task_time' = clear_next
                    /\ ret' = ActRun(v)
                    /\ inflight' = inflight \cup IdsOf(v)
                    /\ unacked' = unacked \cup IdsOf(v)
            ELSE /\ ret' = RetryWait(now)
                 /\ UNCHANGED <<next_task_time, pending, inflight, unacked>>
       ELSE /\ ret' = ActWait(next_task_time.t)
            /\ UNCHANGED <<next_task_time, pending, inflight, unacked>>
    /\ na_prev' = NoCall
    /\ UNCHANGED <<store, next_id, now, task_names, ack_id, new_task_events,
                   awaiting_announce, restart_inflight>>
    /\ UNCHANGED <<scvars, opvars, vmvars>>

\* ack_triggered_task, lines 88-95; the handler acks a task it was handed in a Run
AckBegin(id) ==
    /\ tm_pc = "idle"
    /\ id \in unacked
    /\ unacked' = unacked \ {id}
    /\ pending' = AckRemove(pending, id)
    /\ tm_pc' = "ack"
    /\ ack_id' = id
    /\ ret' = NoCall
    /\ inflight' = inflight \ {id}
    /\ restart_inflight' = restart_inflight \ {id}
    /\ UNCHANGED <<store, next_id, now, next_task_time, task_names,
                   new_task_events, awaiting_announce>>
    /\ na_prev' = NoCall
    /\ UNCHANGED <<scvars, opvars, vmvars>>

\* ack_triggered_task, lines 97-105: one turn of the delete loop
AckDelete(ok) ==
    /\ tm_pc = "ack"
    /\ ret' = NoCall
    /\ IF ok
       THEN /\ store' = del_task_by_id(store, ack_id)
            /\ tm_pc' = "idle"
       ELSE UNCHANGED <<store, tm_pc>>
    /\ UNCHANGED <<next_id, now, next_task_time, pending, task_names, ack_id,
                   new_task_events, inflight, unacked, awaiting_announce,
                   restart_inflight>>
    /\ na_prev' = NoCall
    /\ UNCHANGED <<scvars, opvars, vmvars>>

ClearPending ==
    /\ tm_pc = "idle"
    /\ pending' = <<>>
    /\ ret' = NoCall
    /\ inflight' = {}
    /\ UNCHANGED <<store, next_id, now, next_task_time, task_names, tm_pc, ack_id,
                   new_task_events, unacked, awaiting_announce, restart_inflight>>
    /\ na_prev' = NoCall
    /\ UNCHANGED <<scvars, opvars, vmvars>>

ClearNext ==
    /\ tm_pc = "idle"
    /\ next_task_time' = clear_next
    /\ ret' = NoCall
    /\ UNCHANGED <<store, next_id, now, pending, task_names, tm_pc, ack_id,
                   new_task_events, inflight, unacked, awaiting_announce,
                   restart_inflight>>
    /\ na_prev' = NoCall
    /\ UNCHANGED <<scvars, opvars, vmvars>>

ClearTaskNames ==
    /\ tm_pc = "idle"
    /\ task_names' = <<>>
    /\ ret' = NoCall
    /\ UNCHANGED <<store, next_id, now, next_task_time, pending, tm_pc, ack_id,
                   new_task_events, inflight, unacked, awaiting_announce,
                   restart_inflight>>
    /\ na_prev' = NoCall
    /\ UNCHANGED <<scvars, opvars, vmvars>>

\* script_started(meta), meta.task_names = names
script_started(names) ==
    /\ tm_pc = "idle"
    /\ task_names' = AddNames(task_names, names)
    /\ next_task_time' = CursorAfterScriptStarted(next_task_time)
    /\ ret' = NoCall
    /\ awaiting_announce' = FALSE
    /\ UNCHANGED <<store, next_id, now, pending, tm_pc, ack_id, new_task_events,
                   inflight, unacked, restart_inflight>>
    /\ na_prev' = NoCall
    /\ UNCHANGED <<scvars, vmvars>>

\* script_started called with names that no modelled op announced
ScriptStarted(names) ==
    /\ script_started(names)
    /\ UNCHANGED opvars

----------------------------------------------------------------------------
(* The Manager's callers and environment *)

\* The guild handler's restart path: clear_pending and clear_task_names are both
\* called before the new VM announces its scripts.
RestartTM ==
    /\ tm_pc = "idle"
    /\ restart_inflight' = Range(pending)
    /\ pending' = <<>>
    /\ task_names' = <<>>
    /\ ret' = NoCall
    /\ inflight' = {}
    /\ awaiting_announce' = TRUE
    /\ UNCHANGED <<store, next_id, now, next_task_time, tm_pc, ack_id,
                   new_task_events, unacked>>
    /\ na_prev' = NoCall
    /\ UNCHANGED <<scvars, opvars, vmvars>>

\* The guild handler on RuntimeEvent::NewTaskScheduled: invalidate the cursor
OnNewTaskScheduled ==
    /\ tm_pc = "idle"
    /\ new_task_events
    /\ new_task_events' = FALSE
    /\ next_task_time' = clear_next
    /\ ret' = NoCall
    /\ UNCHANGED <<store, next_id, now, pending, task_names, tm_pc, ack_id,
                   inflight, unacked, awaiting_announce, restart_inflight>>
    /\ na_prev' = NoCall
    /\ UNCHANGED <<scvars, opvars, vmvars>>

\* A script's schedule_task reaching the store: create_task, then NewTaskScheduled
CreateTask(ns, key, fire_at) ==
    /\ next_id <= MaxTasks
    /\ store' = create_task(store, next_id, ns, key, fire_at)
    /\ next_id' = IF Cardinality(store') > Cardinality(store)
                  THEN next_id + 1 ELSE next_id
    /\ store' # store
    /\ new_task_events' = TRUE
    /\ ret' = NoCall
    /\ UNCHANGED <<now, next_task_time, pending, task_names, tm_pc, ack_id,
                   inflight, unacked, awaiting_announce, restart_inflight>>
    /\ na_prev' = NoCall
    /\ UNCHANGED <<scvars, opvars, vmvars>>

\* the clock advances
Tick ==
    /\ now < MaxTime
    /\ now' = now + 1
    /\ ret' = NoCall
    /\ UNCHANGED <<store, next_id, next_task_time, pending, task_names, tm_pc,
                   ack_id, new_task_events, inflight, unacked, awaiting_announce,
                   restart_inflight>>
    /\ na_prev' = NoCall
    /\ UNCHANGED <<scvars, opvars, vmvars>>

NameLists == {<<>>, <<"x">>, <<"z">>, <<"x", "z">>, <<"x", "x">>}

\* shutdown_reason = None, isolate_handle = None
NoReason == "None"
NoHandle == 0
ScriptIds == {1, 2}   \* the ids of the guild's scripts

\* create_vm (lines 773-808) and create_run up to line 126: the handle is
\* fresh, the first isolate exists, nothing has run yet
VmCreated ==
    /\ vm_pc = "start"
    /\ js_ctx = "none"
    /\ spin = FALSE
    /\ rs_todo = <<>>
    /\ rs_cont = "create"
    /\ drain_for = "none"
    /\ new_scripts = <<>>
    /\ cur_evt = 0
    /\ rx = <<>>
    /\ tx = <<>>
    /\ script_store = <<>>
    /\ runtime = 1
    /\ heap_limit = InitialHeapLimit
    /\ ev = "idle"
    /\ term_pending = FALSE
    /\ completed = FALSE
    /\ exit_reason = NoReason
    /\ terminated = FALSE
    /\ shutdown_reason = NoReason
    /\ isolate_handle = NoHandle
    /\ wakeups = 0
    /\ sh_pc = "idle"
    /\ sh_force = FALSE
    /\ cmds_sent = [dispatch |-> 0, script |-> 0]
    /\ sh_calls = 0
    /\ oom_calls = 0
    /\ guild_log = 0
    /\ err_log = "none"
    /\ cell = {}
    /\ rx_closed = FALSE
    /\ loads = [id \in ScriptIds |-> 0]
    /\ work = FALSE
    /\ incarnation = 0
    /\ accepted = {}
    /\ forced = FALSE
    /\ handled = <<>>
    /\ oom_on = {}

\* the options of a call slot that has not been used
NoOpts == [namespace |-> "-", unique_key |-> NoKey, data_len |-> 0,
           execute_at |-> 0, ser_ok |-> TRUE]

\* no schedule_task call is under way
\* no result yet of an op that is not a schedule_task
NoResult == [kind |-> "none", outbuf |-> <<>>]

\* no fire_at computed yet
NoFireAt == [kind |-> "none", secs |-> <<0, 0>>, nanos |-> 0]

\* op_botloader_script_start has not been called
StartIdle ==
    /\ ss_events = <<>>
    /\ ss_handled = 0
    /\ ss_result = NoResult
    /\ ss_log = <<>>
    /\ ss_calls = 0

\* try_guild_add_script_plugin has not been called, no transaction is open
AddPluginIdle ==
    /\ tx_rows = {}
    /\ ap_pc = "idle"
    /\ ap_plugin = 0
    /\ ap_result = "none"
    /\ ap_calls = 0

\* an empty config store on which nothing has been called
ConfigIdle ==
    /\ db_scripts = [plain |-> 0, plugins |-> {}]
    /\ db_plugins = {}
    /\ AddPluginIdle

\* no op other than schedule_task has been called
OpsIdle ==
    /\ StartIdle
    /\ ConfigIdle
    /\ cv_in = <<0, 0>>
    /\ cv_out = NoFireAt

SchedIdle ==
    /\ sc_pc = [c \in 1 .. NumCallers |-> "idle"]
    /\ sc_opts = [c \in 1 .. NumCallers |-> NoOpts]
    /\ sc_result = [c \in 1 .. NumCallers |-> "none"]
    /\ sc_calls = 0
    /\ nts_sent = 0

\* an empty store, a new Manager, a created VM, no schedule_task call
GuildIdle ==
    /\ SchedIdle
    /\ VmCreated
    /\ store = {}
    /\ next_id = 1
    /\ now = 0
    /\ ManagerNew
    /\ new_task_events = FALSE
    /\ inflight = {}
    /\ unacked = {}
    /\ awaiting_announce = FALSE
    /\ restart_inflight = {}
    /\ na_prev = NoCall

InitTM ==
    /\ GuildIdle
    /\ OpsIdle

NextTM ==
    \/ \E ok \in BOOLEAN : NextActionFetch(ok)
    \/ \E ok \in BOOLEAN : NextActionMatch(ok)
    \/ \E id \in 1 .. MaxTasks : AckBegin(id)
    \/ \E ok \in BOOLEAN : AckDelete(ok)
    \/ ClearPending
    \/ ClearNext
    \/ ClearTaskNames
    \/ \E names \in NameLists : ScriptStarted(names)
    \/ OnNewTaskScheduled
    \/ \E ns \in Namespaces, t \in FireTimes : CreateTask(ns, NoKey, t)
    \/ Tick

SpecTM == InitTM /\ [][NextTM]_vars

\* The Manager as the guild handler drives it: pending and the task names are
\* cleared together, by the restart path.
NextTMLive ==
    \/ \E ok \in BOOLEAN : NextActionFetch(ok)
    \/ \E ok \in BOOLEAN : NextActionMatch(ok)
    \/ \E id \in 1 .. MaxTasks : AckBegin(id)
    \/ \E ok \in BOOLEAN : AckDelete(ok)
    \/ ClearNext
    \/ \E names \in NameLists : ScriptStarted(names)
    \/ RestartTM
    \/ OnNewTaskScheduled
    \/ \E ns \in Namespaces, t \in FireTimes : CreateTask(ns, NoKey, t)
    \/ Tick

\* next_action is called again and again, the clock runs, queued events are
\* handled, and a store query that is retried again and again succeeds.
FairTM ==
    /\ WF_vars(NextActionFetch(TRUE))
    /\ WF_vars(\E ok \in BOOLEAN : NextActionMatch(ok))
    /\ SF_vars(NextActionMatch(TRUE) /\ ret'.kind = "Run")
    /\ WF_vars(AckDelete(TRUE))
    /\ WF_vars(OnNewTaskScheduled)
    /\ WF_vars(Tick)

SpecTMLive == InitTM /\ [][NextTMLive]_vars /\ FairTM

----------------------------------------------------------------------------
(* op_bl_schedule_task (components/runtime/src/extensions/tasks.rs) *)

\* ser_ok = serde_json::to_string(&opts.data) succeeds, and data_len is then
\* the length of its result
OptsSet ==
    [namespace : Namespaces, unique_key : Keys,
     data_len : 0 .. (DataSizeLimit + 1), execute_at : {0}, ser_ok : {TRUE}]
    \cup [namespace : Namespaces, unique_key : Keys,
          data_len : {0}, execute_at : {0}, ser_ok : {FALSE}]

\* line 41: data_serialized.len() as u64 > limit_data_len
DataTooLong(len, limit) == len > limit

\* line 50: current > limit_num_tasks
TooManyTasks(current, limit) == current > limit

SchedUnchangedTM ==
    /\ UNCHANGED <<now, next_task_time, pending, task_names, tm_pc, ack_id, ret,
                   new_task_events, inflight, unacked, awaiting_announce,
                   restart_inflight, na_prev>>
    /\ UNCHANGED <<opvars, vmvars>>

\* mutant: the event is not sent
NtsAfterCreate_NotSent(sent) == sent

\* line 68: rt_ctx.event_tx.send(RuntimeEvent::NewTaskScheduled)
NtsAfterCreate(sent) == sent + 1

\* lines 30-45: the call starts, the data is serialized and its length checked
SchedBegin(c, opts) ==
    /\ sc_pc[c] = "idle"
    /\ sc_calls < MaxSchedCalls
    /\ sc_calls' = sc_calls + 1
    /\ sc_opts' = [sc_opts EXCEPT ![c] = opts]
    /\ IF ~opts.ser_ok
       THEN /\ sc_result' = [sc_result EXCEPT ![c] = "err_serialize"]
            /\ UNCHANGED sc_pc
       ELSE IF DataTooLong(opts.data_len, DataSizeLimit)
       THEN /\ sc_result' = [sc_result EXCEPT ![c] = "err_data_size"]
            /\ UNCHANGED sc_pc
       ELSE /\ sc_result' = [sc_result EXCEPT ![c] = "none"]
            /\ sc_pc' = [sc_pc EXCEPT ![c] = "count"]
    /\ UNCHANGED <<store, next_id, nts_sent>>
    /\ SchedUnchangedTM

\* lines 48-54: get_task_count is awaited and compared with the plan's limit
SchedCount(c, ok) ==
    /\ sc_pc[c] = "count"
    /\ IF ~ok
       THEN /\ sc_result' = [sc_result EXCEPT ![c] = "err_store"]
            /\ sc_pc' = [sc_pc EXCEPT ![c] = "idle"]
       ELSE IF TooManyTasks(get_task_count(store), TaskCountLimit)
       THEN /\ sc_result' = [sc_result EXCEPT ![c] = "err_task_count"]
            /\ sc_pc' = [sc_pc EXCEPT ![c] = "idle"]
       ELSE /\ sc_pc' = [sc_pc EXCEPT ![c] = "create"]
            /\ UNCHANGED sc_result
    /\ UNCHANGED <<store, next_id, sc_opts, sc_calls, nts_sent>>
    /\ SchedUnchangedTM

\* lines 56-70: create_task is awaited, then NewTaskScheduled is sent
SchedCreate(c, ok) ==
    /\ sc_pc[c] = "create"
    /\ sc_pc' = [sc_pc EXCEPT ![c] = "idle"]
    /\ IF ok
       THEN /\ store' = create_task(store, next_id, sc_opts[c].namespace,
                                    sc_opts[c].unique_key, sc_opts[c].execute_at)
            /\ next_id' = IF Cardinality(store') > Cardinality(store)
                          THEN next_id + 1 ELSE next_id
            /\ nts_sent' = NtsAfterCreate(nts_sent)
            /\ sc_result' = [sc_result EXCEPT ![c] = "ok"]
       ELSE /\ sc_result' = [sc_result EXCEPT ![c] = "err_store"]
            /\ UNCHANGED <<store, next_id, nts_sent>>
    /\ UNCHANGED <<sc_opts, sc_calls>>
    /\ SchedUnchangedTM

InitSched ==
    /\ SchedIdle
    /\ OpsIdle
    /\ VmCreated
    /\ store = {}
    /\ next_id = 1
    /\ now = 0
    /\ ManagerNew
    /\ new_task_events = FALSE
    /\ inflight = {}
    /\ unacked = {}
    /\ awaiting_announce = FALSE
    /\ restart_inflight = {}
    /\ na_prev = NoCall

NextSched ==
    \/ \E c \in 1 .. NumCallers, opts \in OptsSet : SchedBegin(c, opts)
    \/ \E c \in 1 .. NumCallers, ok \in BOOLEAN : SchedCount(c, ok)
    \/ \E c \in 1 .. NumCallers, ok \in BOOLEAN : SchedCreate(c, ok)

SpecSched == InitSched /\ [][NextSched]_vars

\* C10 as stated: a call whose serialized data is longer than tasks_data_size(plan)
\* fails and creates nothing, and the number of stored tasks of the tenant never
\* exceeds tasks_scheduled_count(plan).
C10_PlanLimits ==
    /\ \A c \in 1 .. NumCallers :
         DataTooLong(sc_opts[c].data_len, DataSizeLimit)
             => sc_pc[c] = "idle" /\ sc_result[c] = "err_data_size"
    /\ get_task_count(store) <= TaskCountLimit

\* the schedule_task call of slot c returns in this step, with result res
SchedReturns(c, res) ==
    /\ \/ \E opts \in OptsSet : SchedBegin(c, opts)
       \/ \E ok \in BOOLEAN : SchedCount(c, ok)
       \/ \E ok \in BOOLEAN : SchedCreate(c, ok)
    /\ sc_pc'[c] = "idle"
    /\ sc_result'[c] = res
SchedErrors == {"err_serialize", "err_data_size", "err_task_count", "err_store"}

\* C32: schedule_task emits NewTaskScheduled exactly once per successful
\* call, and when it is emitted the task is in the store; a call that fails
\* (serialization, payload too large, task limit reached, store error)
\* creates no task and emits no NewTaskScheduled; nothing else emits it.
C32_NewTaskScheduledOncePerSuccess ==
    [][/\ \A c \in 1 .. NumCallers :
            /\ SchedReturns(c, "ok") =>
                  /\ nts_sent' = nts_sent + 1
                  /\ \E r \in store' :
                        /\ r.namespace = sc_opts[c].namespace
                        /\ r.unique_key = sc_opts[c].unique_key
                        /\ r.fire_at = sc_opts[c].execute_at
            /\ (\E res \in SchedErrors : SchedReturns(c, res)) =>
                  UNCHANGED <<store, nts_sent>>
       /\ nts_sent' # nts_sent =>
            \E c \in 1 .. NumCallers : SchedReturns(c, "ok")
       /\ store' # store =>
            \E c \in 1 .. NumCallers : SchedReturns(c, "ok")]_vars

\* one call has succeeded and another has failed, all calls are used up:
\* one event, one task
C32_Witness ==
    /\ nts_sent = 1
    /\ Cardinality(store) = 1
    /\ sc_calls = MaxSchedCalls
    /\ \E c \in 1 .. NumCallers : sc_result[c] = "ok"
    /\ \E c \in 1 .. NumCallers : sc_result[c] \in SchedErrors

----------------------------------------------------------------------------
(* op_botloader_script_start (components/runtime/src/lib.rs) *)

\* What validation::validate says of each command and command group a script
\* declares: the number of ValidationErrors, 0 for Ok(()).
VerrCounts == 0 .. MaxVerrs
CommandLists == {<<>>} \cup {<<n>> : n \in VerrCounts}
                \cup {<<n, 1>> : n \in VerrCounts}
GroupLists == {<<>>, <<0>>, <<1>>}

\* ScriptMeta values as serde_json::from_value yields them (de_ok), and one
\* argument that does not deserialize
Metas == [script_id : {1}, commands : CommandLists, command_groups : GroupLists,
          task_names : {<<>>, <<"x">>, <<"x", "z">>}, de_ok : {TRUE}]
NoMeta == [script_id |-> 0, commands |-> <<>>, command_groups |-> <<>>,
           task_names |-> <<>>, de_ok |-> FALSE]
MetaArgs == Metas \cup {NoMeta}

\* the lines "\n<what> <name>: <verr>" pushed to outbuf for items[i ..]
RECURSIVE OutbufLines(_, _, _)
OutbufLines(what, items, i) ==
    IF i > Len(items) THEN <<>>
    ELSE [j \in 1 .. items[i] |-> [what |-> what, name |-> i, verr |-> j]]
         \o OutbufLines(what, items, i + 1)

\* mutant: the command groups are not validated
validate_script_meta_CommandsOnly(meta) ==
    LET outbuf == OutbufLines("command", meta.commands, 1)
    IN  IF outbuf = <<>> THEN [kind |-> "ok", outbuf |-> <<>>]
        ELSE [kind |-> "err_validation", outbuf |-> outbuf]

\* lines 172-196
validate_script_meta(meta) ==
    LET outbuf == OutbufLines("command", meta.commands, 1)
                  \o OutbufLines("command group", meta.command_groups, 1)
    IN  IF outbuf = <<>> THEN [kind |-> "ok", outbuf |-> <<>>]
        ELSE [kind |-> "err_validation", outbuf |-> outbuf]

\* lines 144-170: one call of the op, which is synchronous
ScriptStartOp(args) ==
    /\ ss_calls < MaxStartCalls
    /\ ss_calls' = ss_calls + 1
    /\ IF ~args.de_ok
       THEN /\ ss_result' = [kind |-> "err_deserialize", outbuf |-> <<>>]
            /\ UNCHANGED <<ss_log, ss_events>>
       ELSE LET res == validate_script_meta(args)
            IN  IF res.kind # "ok"
                THEN /\ ss_log' = Append(ss_log,
                                     [script_id |-> args.script_id,
                                      msg |-> "script meta validation failed",
                                      outbuf |-> res.outbuf])
                     /\ ss_result' = res
                     /\ UNCHANGED ss_events
                ELSE /\ ss_events' = Append(ss_events, args)
                     /\ ss_result' = res
                     /\ UNCHANGED ss_log
    /\ UNCHANGED <<ss_handled, cv_in, cv_out, plvars, tmvars, scvars, vmvars>>

\* the guild handler receives the next ScriptStarted(meta) and calls
\* task_manager.script_started(meta)
HandleScriptStarted ==
    /\ ss_handled < Len(ss_events)
    /\ ss_handled' = ss_handled + 1
    /\ script_started(ss_events[ss_handled + 1].task_names)
    /\ UNCHANGED <<ss_events, ss_result, ss_log, ss_calls, cv_in, cv_out, plvars>>

NextMeta ==
    \/ \E args \in MetaArgs : ScriptStartOp(args)
    \/ HandleScriptStarted

SpecMeta == InitTM /\ [][NextMeta]_vars

\* validation::validate returned Err for a command or a command group
FailsValidation(meta) ==
    \/ \E i \in 1 .. Len(meta.commands) : meta.commands[i] > 0
    \/ \E i \in 1 .. Len(meta.command_groups) : meta.command_groups[i] > 0

RECURSIVE SumOf(_)
SumOf(items) == IF items = <<>> THEN 0 ELSE Head(items) + SumOf(Tail(items))

\* C33: a script_start whose metadata fails validation returns one error
\* that holds every validation error, writes one entry with it to the guild
\* log and sends no ScriptStarted, so the Manager learns none of its
\* task_names from it; a script_start whose metadata passes sends exactly one
\* ScriptStarted carrying that metadata and logs nothing.
C33_InvalidMetaNotAnnounced ==
    /\ [][\A meta \in Metas : ScriptStartOp(meta) =>
            IF FailsValidation(meta)
            THEN /\ ss_result'.kind = "err_validation"
                 /\ Len(ss_result'.outbuf)
                      = SumOf(meta.commands) + SumOf(meta.command_groups)
                 /\ Len(ss_log') = Len(ss_log) + 1
                 /\ ss_log'[Len(ss_log')].outbuf = ss_result'.outbuf
                 /\ ss_log'[Len(ss_log')].script_id = meta.script_id
                 /\ UNCHANGED <<ss_events, task_names>>
            ELSE /\ ss_result'.kind = "ok"
                 /\ ss_events' = Append(ss_events, meta)
                 /\ UNCHANGED <<ss_log, task_names>>]_vars
    /\ [](\A k \in 1 .. Len(ss_events) : ~FailsValidation(ss_events[k]))
    /\ [](\A i \in 1 .. Len(task_names) :
             \E k \in 1 .. ss_handled :
                 Contains(ss_events[k].task_names, task_names[i]))

\* a script that declares "x" has started and was announced to the Manager;
\* then a script that declares "x" and "z" and an invalid command group was
\* refused: "z" is not known
C33_Witness ==
    /\ ss_calls = 2
    /\ ss_handled = 1
    /\ Len(ss_events) = 1
    /\ ss_result.kind = "err_validation"
    /\ Len(ss_log) = 1
    /\ ss_log[1].outbuf = <<[what |-> "command group", name |-> 1, verr |-> 1]>>
    /\ task_names = <<"x">>

----------------------------------------------------------------------------
(* The execute_at conversion of op_bl_schedule_task (tasks.rs 33-37) *)

\* Milliseconds and seconds since the epoch exceed the 32-bit integers of
\* TLC, so a number n is kept as <<hi, lo>> with n = hi * Limb + lo and
\* 0 <= lo < Limb.
Limb == 1000000000
BigLess(a, b) == a[1] < b[1] \/ (a[1] = b[1] /\ a[2] < b[2])
BigInc(a) == IF a[2] + 1 = Limb THEN <<a[1] + 1, 0>> ELSE <<a[1], a[2] + 1>>
BigDiv1000(a) == <<a[1] \div 1000, (a[1] % 1000) * 1000000 + a[2] \div 1000>>
BigMul1000(a) == <<a[1] * 1000 + a[2] \div 1000000, (a[2] % 1000000) * 1000>>
\* a - b as an integer, for numbers less than 2 * Limb apart
BigDiff(a, b) == (a[1] - b[1]) * Limb + (a[2] - b[2])

TwoPow43 == <<8796, 93022208>>              \* 2^43
TwoPow53 == <<9007199, 254740992>>          \* 2^53
\* chrono: the last second of NaiveDate::MAX, 262143-12-31T23:59:59
MaxChronoSecs == <<8210, 298412799>>
MaxNanos == 2 * Limb                        \* timestamp_opt takes nsecs < 2e9

\* execute_at values a script can pass: integers a JavaScript number holds
\* exactly, 0 .. 2^53 - 1, sampled around the second boundaries, the largest
\* chrono date, 1000 * 2^43 and 2^53
ExecuteAtHi == {0, 1, 999, 1000, 8210298, 8210299, 8796093, 9007199}
ExecuteAtLo == {0, 1, 999, 1000, 1001, 1999, 22207999, 22208000, 254740991,
                412799999, 412800000, 999999999}
ExecuteAtSamples ==
    {x \in ExecuteAtHi \X ExecuteAtLo : BigLess(x, TwoPow53)}

\* line 33, `as f64`: exact below 2^53, which every sample is
AsF64(x) == x

\* The doubles between 2^e and 2^(e+1) are 2^(e-52) apart: below 2^43 there
\* are at least 1024 of them per unit, from 2^43 to 2^44 there are 512.
DoublesPerUnit(k) == IF BigLess(k, TwoPow43) THEN 1024 ELSE 512

\* line 33, `(x / 1000f64).floor() as i64`: the quotient k + r/1000 is rounded
\* to the nearest double, which is k + 1 when the distance to k + 1 is at most
\* half the spacing of the doubles below it (an upper bound for k < 2^42,
\* where they are closer still)
F64DivFloor1000(f) ==
    LET k == BigDiv1000(f)
        r == f[2] % 1000
    IN  IF (1000 - r) * 2 * DoublesPerUnit(k) <= 1000 THEN BigInc(k) ELSE k

\* line 34: opts.execute_at.0 as i64 - (seconds * 1000); no i64 overflow
\* below 2^53
MillisOf(x, seconds) == BigDiff(x, BigMul1000(seconds))

\* lines 35-36, `millis as u32 * 1_000_000`: the outcomes of the u32
\* product. A negative millis becomes 2^32 + millis, and the product
\* overflows: a panic with overflow checks, else the wrapped value, which
\* is 2^32 - |millis| * 10^6 (|millis| <= 1000) and is kept as "wrapped".
NanosOf(millis) ==
    IF millis >= 0 /\ millis <= 4294
    THEN {[kind |-> "value", n |-> millis * 1000000]}
    ELSE {[kind |-> "overflow", n |-> 0], [kind |-> "wrapped", n |-> 0]}

\* chrono::Utc.timestamp_opt(secs, nsecs): LocalResult::None when the date
\* is out of range or nsecs >= 2_000_000_000 (every wrapped value above is)
timestamp_opt(secs, nanos) ==
    IF nanos.kind = "value" /\ nanos.n < MaxNanos
       /\ ~BigLess(MaxChronoSecs, secs)
    THEN [kind |-> "some", secs |-> secs, nanos |-> nanos.n]
    ELSE [kind |-> "panic", secs |-> <<0, 0>>, nanos |-> 0]

\* lines 33-37: the values `t` can take, or the panic of an overflow check
\* or of unwrap()
FireAtOf(x) ==
    LET seconds == F64DivFloor1000(AsF64(x))
        millis == MillisOf(x, seconds)
    IN  {IF nanos.kind = "overflow"
         THEN [kind |-> "panic", secs |-> <<0, 0>>, nanos |-> 0]
         ELSE timestamp_opt(seconds, nanos) : nanos \in NanosOf(millis)}

\* lines 33-37 run on the execute_at the op was called with
ConvertExecuteAt ==
    /\ cv_out = NoFireAt
    /\ cv_out' \in FireAtOf(cv_in)
    /\ UNCHANGED <<cv_in, ss_events, ss_handled, ss_result, ss_log, ss_calls,
                   plvars, tmvars, scvars, vmvars>>

InitConv ==
    /\ GuildIdle
    /\ StartIdle
    /\ ConfigIdle
    /\ cv_in \in ExecuteAtSamples
    /\ cv_out = NoFireAt

NextConv == ConvertExecuteAt

SpecConv == InitConv /\ [][NextConv]_vars

----------------------------------------------------------------------------
(* try_guild_add_script_plugin (components/stores/src/postgres/config.rs) *)

PluginIds == {1, 2}

\* SELECT count(*) FROM guild_scripts WHERE guild_id = $1
get_guild_script_count(rows) == rows.plain + Cardinality(rows.plugins)

\* what a statement run on the transaction sees: the committed rows and the
\* rows the transaction has inserted
TxView == [db_scripts EXCEPT !.plugins = @ \cup tx_rows]

\* `tx` goes out of scope: sqlx rolls back a Transaction that is dropped
\* without commit(), and the function calls commit() nowhere
TxDropped(rows, inserted) == rows

\* the call returns res and `tx` is dropped
AddPluginReturn(res) ==
    /\ ap_result' = res
    /\ ap_pc' = "idle"
    /\ db_scripts' = TxDropped(db_scripts, tx_rows)
    /\ tx_rows' = {}
    /\ UNCHANGED <<db_plugins, ap_plugin, ap_calls>>

\* the other variables of a step of the call
AddPluginFrame ==
    UNCHANGED <<ss_events, ss_handled, ss_result, ss_log, ss_calls, cv_in,
                cv_out, tmvars, scvars, vmvars>>

\* line 797: self.pool.begin()
AddPluginBegin(plugin_id, ok) ==
    /\ ap_pc = "idle"
    /\ ap_calls < MaxAddCalls
    /\ ap_calls' = ap_calls + 1
    /\ ap_plugin' = plugin_id
    /\ IF ok
       THEN /\ ap_pc' = "scripts"
            /\ ap_result' = "none"
       ELSE /\ ap_pc' = "idle"
            /\ ap_result' = "err_sqlx"
    /\ UNCHANGED <<db_scripts, db_plugins, tx_rows>>
    /\ AddPluginFrame

\* lines 799-802: get_guild_scripts and the plugin_id check
AddPluginScripts(ok) ==
    /\ ap_pc = "scripts"
    /\ IF ~ok THEN AddPluginReturn("err_sqlx")
       ELSE IF ap_plugin \in TxView.plugins
       THEN AddPluginReturn("GuildAlreadyHasPlugin")
       ELSE /\ ap_pc' = "plugin"
            /\ UNCHANGED <<db_scripts, db_plugins, tx_rows, ap_plugin,
                           ap_result, ap_calls>>
    /\ AddPluginFrame

\* line 804: inner_get_plugin (lines 126-153)
AddPluginGet(ok) ==
    /\ ap_pc = "plugin"
    /\ IF ~ok THEN AddPluginReturn("err_sqlx")
       ELSE IF ap_plugin \notin db_plugins
       THEN AddPluginReturn("PluginNotFound")
       ELSE /\ ap_pc' = "count"
            /\ UNCHANGED <<db_scripts, db_plugins, tx_rows, ap_plugin,
                           ap_result, ap_calls>>
    /\ AddPluginFrame

\* inner_create_script, lines 98-104: the count and the limit
AddPluginCount(ok) ==
    /\ ap_pc = "count"
    /\ IF ~ok THEN AddPluginReturn("err_sqlx")
       ELSE IF get_guild_script_count(TxView) > GUILD_SCRIPT_COUNT_LIMIT
       THEN AddPluginReturn("GuildScriptLimitReached")
       ELSE /\ ap_pc' = "insert"
            /\ UNCHANGED <<db_scripts, db_plugins, tx_rows, ap_plugin,
                           ap_result, ap_calls>>
    /\ AddPluginFrame

\* inner_create_script, lines 106-123: the INSERT runs on the transaction
AddPluginInsert(ok) ==
    /\ ap_pc = "insert"
    /\ IF ok
       THEN /\ tx_rows' = tx_rows \cup {ap_plugin}
            /\ ap_pc' = "return"
            /\ UNCHANGED <<db_scripts, db_plugins, ap_plugin, ap_result,
                           ap_calls>>
       ELSE AddPluginReturn("err_sqlx")
    /\ AddPluginFrame

\* lines 810-822: the Ok(script) of inner_create_script is the value of the
\* function
AddPluginOk ==
    /\ ap_pc = "return"
    /\ AddPluginReturn("ok")
    /\ AddPluginFrame

\* create_script, lines 181-187, called by someone else for a script that
\* belongs to no plugin; its INSERT commits at once
CreateScript ==
    /\ get_guild_script_count(db_scripts) <= GUILD_SCRIPT_COUNT_LIMIT
    /\ db_scripts' = [db_scripts EXCEPT !.plain = @ + 1]
    /\ UNCHANGED <<db_plugins, tx_rows, ap_pc, ap_plugin, ap_result, ap_calls>>
    /\ AddPluginFrame

\* a guild with some scripts, among them scripts of plugins, and a plugins
\* table
InitConfig ==
    /\ GuildIdle
    /\ StartIdle
    /\ cv_in = <<0, 0>>
    /\ cv_out = NoFireAt
    /\ AddPluginIdle
    /\ db_plugins \in SUBSET PluginIds
    /\ db_scripts \in [plain : {0, GUILD_SCRIPT_COUNT_LIMIT - 1,
                                GUILD_SCRIPT_COUNT_LIMIT},
                       plugins : SUBSET db_plugins]

NextConfig ==
    \/ \E plugin_id \in PluginIds, ok \in BOOLEAN : AddPluginBegin(plugin_id, ok)
    \/ \E ok \in BOOLEAN : AddPluginScripts(ok)
    \/ \E ok \in BOOLEAN : AddPluginGet(ok)
    \/ \E ok \in BOOLEAN : AddPluginCount(ok)
    \/ \E ok \in BOOLEAN : AddPluginInsert(ok)
    \/ AddPluginOk
    \/ CreateScript

SpecConfig == InitConfig /\ [][NextConfig]_vars

\* the call returns in this step
AddPluginReturns == ap_pc # "idle" /\ ap_pc' = "idle"

\* C39: when try_guild_add_script_plugin returns Ok(script) the row is stored
\* durably: the transaction is committed and list_scripts returns a script of
\* that plugin; when it returns an error it has added no row.
C39_OkMeansStored ==
    [][AddPluginReturns =>
         /\ tx_rows' = {}
         /\ IF ap_result' = "ok"
            THEN ap_plugin \in db_scripts'.plugins
            ELSE db_scripts' = db_scripts]_vars

----------------------------------------------------------------------------
(* Claims about the Manager *)

Known(ns) == Contains(task_names, ns)
Returned(id) == ret.kind = "Run" /\ id \in IdsOf(ret.tasks)

\* what next_action has just returned is gated by the task names of that call
GatedRun == ret.kind = "Run" =>
                \A i \in 1 .. Len(ret.tasks) : Known(ret.tasks[i].namespace)

\* C1 as stated: every task returned in a Run has a namespace in known_namespaces
\* at the time of the call, and a due task whose namespace is not declared is
\* neither returned by next_action nor deleted from the store by the Manager.
C1_GatingAndNeverDeleted ==
    [][ /\ GatedRun'
        /\ \A r \in store : (r.fire_at <= now /\ ~Known(r.namespace))
                                => r.id \in {q.id : q \in store'} ]_vars

\* C1 amended: every task returned in a Run has a namespace in known_namespaces at
\* the time of the call, so a due task of an undeclared namespace is never returned;
\* the Manager deletes a row only in ack_triggered_task(id), and only the row id.
C1_GatingAndDeleteOnlyByAck ==
    [][ /\ GatedRun'
        /\ \A r \in store : r.id \notin {q.id : q \in store'}
                                => tm_pc = "ack" /\ ack_id = r.id ]_vars

\* C1 witness: a Run has returned tasks while a due task of an undeclared
\* namespace sits in the store
C1_Witness ==
    /\ ret.kind = "Run" /\ Len(ret.tasks) > 0
    /\ \E r \in store : r.fire_at < now /\ ~Known(r.namespace)

\* C2: from the next_action that returns id in a Run until the following ack(id)
\* or clear_pending, id is in pending and no next_action returns id again.
C2_NoDoubleFire ==
    [][ /\ ret'.kind = "Run" => IdsOf(ret'.tasks) \cap inflight = {}
        /\ inflight' \subseteq Range(pending') ]_vars

\* C2 witness: a Run has returned a task while another, due and still stored,
\* was in flight
C2_Witness ==
    /\ ret.kind = "Run" /\ Len(ret.tasks) > 0
    /\ \E r \in store : /\ r.id \in inflight \ IdsOf(ret.tasks)
                        /\ r.fire_at < now /\ Known(r.namespace)

\* a stored task that is due, declared and not in flight
Deliverable(id) ==
    /\ id \notin Range(pending)
    /\ \E r \in store : r.id = id /\ r.fire_at <= now /\ Known(r.namespace)

\* the task is handed out, or it stopped being stored or declared
DeliveredOrGone(id) ==
    \/ Returned(id)
    \/ ~\E r \in store : r.id = id /\ Known(r.namespace)

\* C3: every stored task with fire_at <= now whose namespace is known is
\* eventually returned in a Run (unless it is deleted or a restart clears its
\* namespace first); so after a restart and script_started delivery resumes.
C3_AtLeastOnce ==
    \A id \in 1 .. MaxTasks : Deliverable(id) ~> DeliveredOrGone(id)

\* C3 witness: one Run has handed out every task the store can hold
C3_Witness == ret.kind = "Run" /\ Len(ret.tasks) >= 2 /\ now = MaxTime

\* C4: after the restart path (clear_pending, clear_task_names) pending and the
\* known namespaces are empty and next_action returns no task until
\* script_started; once the namespace of a task that was in flight is announced
\* again, that task, if still stored, is returned again.
C4_RestartRedelivers ==
    /\ [](awaiting_announce =>
            /\ pending = <<>> /\ task_names = <<>>
            /\ (ret.kind = "Run" => ret.tasks = <<>>))
    /\ \A id \in 1 .. MaxTasks :
         (id \in restart_inflight /\ ~awaiting_announce /\ Deliverable(id))
             ~> DeliveredOrGone(id)

\* C4 witness: a task that was in flight at the restart is returned again
C4_Witness ==
    /\ ret.kind = "Run"
    /\ IdsOf(ret.tasks) \cap restart_inflight # {}

\* the cursor of the Manager
Cursor == <<next_task_time, pending, task_names>>

\* In a step that ends a next_action call: what the call before it returned, if
\* the two calls follow each other with no time advance, no store change and no
\* other operation between them (NoCall otherwise) ...
PrevRet == IF tm_pc = "na_match" THEN na_prev ELSE ret

\* In a step that ends a next_action call: the cursor when the call was made. A
\* call that starts by fetching found the cursor not fetched, and pending and
\* task_names do not change before the match.
CursorAtCall ==
    <<IF tm_pc = "na_match" THEN NotFetched ELSE next_task_time, pending, task_names>>

\* ... and the cursor the call before left, which is the same
CursorAfterPrev == CursorAtCall

\* the call before returned None or Wait(t) for the cached time t
PrevFromCache ==
    /\ tm_pc = "idle"
    /\ \/ PrevRet.kind = "None"
       \/ PrevRet.kind = "Wait" /\ next_task_time = At(PrevRet.until)

\* the action is the Wait(now + 10 s) of a store error (no task of the model
\* fires that late)
IsRetryWait(a) == a.kind = "Wait" /\ a.until = now + StoreRetrySecs

\* C11 as stated: two consecutive next_action calls with no time advance, no
\* store change and no other operation between them return the same action, and
\* the cursor after the second call equals the cursor after the first (read for
\* calls that meet no store error).
C11_Idempotent ==
    [][ (ret' # NoCall /\ PrevRet # NoCall
            /\ ~IsRetryWait(PrevRet) /\ ~IsRetryWait(ret'))
            => ret' = PrevRet /\ Cursor' = CursorAfterPrev ]_vars

\* C11 amended: of two such calls, the second returns the same action and leaves
\* the same cursor when the first returned None or Wait(t) for the cached time t;
\* when the first returned Run, the second returns None or Wait, not Run again
\* (the tasks it handed out are pending, the cursor was cleared and is fetched
\* anew); a Wait caused by a store error is not repeated by a call that succeeds.
C11_IdempotentUnlessRun ==
    [][ (ret' # NoCall /\ PrevRet # NoCall)
            => /\ PrevFromCache => ret' = PrevRet /\ Cursor' = CursorAfterPrev
               /\ PrevRet.kind = "Run" => ret'.kind # "Run" ]_vars

\* C11 witness: the call before has just returned a task in a Run, and this
\* call, following it directly, has found no other eligible task
C11_Witness ==
    /\ tm_pc = "na_match"
    /\ na_prev.kind = "Run" /\ Len(na_prev.tasks) > 0
    /\ next_task_time = NoTask

\* the match of lines 51-84 takes the arm that asks the store for the triggered
\* tasks
MatchAsks ==
    /\ next_task_time # NotFetched /\ next_task_time # NoTask
    /\ IsDue(now, next_task_time.t)

\* C12 as stated: a single next_action call issues at most one query to the timer
\* store: a call that has asked for the next task time (it is at its match with
\* the answer) returns without asking for the triggered tasks.
C12_OneQueryPerCall ==
    [][ (tm_pc = "na_match" /\ tm_pc' = "idle") => ~MatchAsks ]_vars

\* C16 as stated: on a cached cursor next_action returns None when the cache says
\* no eligible task, Wait(t) exactly when the cached time t is in the future
\* (t > now), and in every other case, t = now included, it queries the due
\* tasks and returns Run with them (the Wait of a store error aside).
C16_CachedDecision ==
    [][ (tm_pc = "idle" /\ next_task_time # NotFetched
            /\ ret' # NoCall /\ ~IsRetryWait(ret'))
          => IF next_task_time = NoTask THEN ret' = ActNone
             ELSE IF next_task_time.t > now THEN ret' = ActWait(next_task_time.t)
             ELSE ret' = ActRun(get_triggered_tasks(store, now, pending, task_names))
      ]_vars

\* the operations that reset the cached next fire time
ResetsCache ==
    \/ ClearNext
    \/ OnNewTaskScheduled
    \/ \E names \in NameLists : ScriptStarted(names)
    \/ ret'.kind = "Run"

\* the operations said to leave it alone
KeepsCache ==
    \/ \E id \in 1 .. MaxTasks : AckBegin(id)
    \/ \E ok \in BOOLEAN : AckDelete(ok)
    \/ ClearPending
    \/ ClearTaskNames

\* C17: the cached next fire time is reset to "not yet queried" by clear_next /
\* invalidate, by script_started and by a task pickup (next_action returning
\* Run), and by nothing else; ack, clear_pending and clear_task_names leave it
\* unchanged; the next_action that follows a reset asks the store again and
\* caches the earliest eligible fire time the store holds then.
C17_CacheResets ==
    [][ /\ ResetsCache => next_task_time' = NotFetched
        /\ (next_task_time # NotFetched /\ next_task_time' = NotFetched)
              => ResetsCache
        /\ KeepsCache => next_task_time' = next_task_time
        /\ (next_task_time = NotFetched /\ next_task_time' # NotFetched)
              => next_task_time' = get_next_task_time(store, pending, task_names)
      ]_vars

\* C17 witness: the cursor was fetched anew and holds the fire time of the task
\* scheduled last, which is earlier than that of the task scheduled first
C17_Witness ==
    /\ tm_pc = "na_match" /\ next_task_time = At(0)
    /\ \E r1, r2 \in store :
          /\ r1.id < r2.id /\ r1.fire_at = 1 /\ r2.fire_at = 0
          /\ Known(r1.namespace) /\ Known(r2.namespace)
          /\ r1.id \notin Range(pending)

\* a store query of next_action fails in this step
StoreErrorStep ==
    \/ NextActionFetch(FALSE)
    \/ MatchAsks /\ NextActionMatch(FALSE)

NoDuplicates(seq) == \A i, j \in 1 .. Len(seq) : seq[i] = seq[j] => i = j

\* C19: script_started(meta) sets known_namespaces to the union of its previous
\* value and meta.task_names: no namespace is removed (the names known before
\* keep their places), none is added twice, and pending is unchanged;
\* known_namespaces shrinks only by clear_task_names.
C19_ScriptStartedUnion ==
    [][ /\ \A names \in NameLists : ScriptStarted(names) =>
              /\ Range(task_names') = Range(task_names) \cup Range(names)
              /\ SubSeq(task_names', 1, Len(task_names)) = task_names
              /\ pending' = pending
        /\ NoDuplicates(task_names')
        /\ ~(Range(task_names) \subseteq Range(task_names')) => ClearTaskNames
      ]_vars

\* C19 witness: "x" was announced after "z" while a task was pending
C19_Witness ==
    /\ task_names = <<"z", "x">> /\ pending # <<>>
    /\ next_task_time = NotFetched /\ tm_pc = "idle" /\ ret = NoCall

\* C13: ack(id) removes id from pending before it asks the store, goes on asking
\* the store to delete until the store reports success and returns only then
\* (there is no error return); when it returns, id is neither in pending nor in
\* the store; and if the store eventually succeeds, ack returns.
C13_AckCompletes ==
    /\ [][ /\ (tm_pc = "idle" /\ tm_pc' = "ack") => ack_id' \notin Range(pending')
           /\ (tm_pc = "ack" /\ tm_pc' = "ack") =>
                  ack_id' = ack_id /\ ack_id \notin Range(pending')
           /\ (tm_pc = "ack" /\ tm_pc' = "idle") =>
                  ack_id \notin Range(pending') /\ ack_id \notin {r.id : r \in store'}
         ]_vars
    /\ (tm_pc = "ack" ~> tm_pc = "idle")

\* C13 witness: ack has returned; its task is gone from the store and from
\* pending, another task is still stored and pending
C13_Witness ==
    /\ tm_pc = "idle" /\ ack_id # 0
    /\ ack_id \notin StoredIds /\ ack_id \notin Range(pending)
    /\ pending # <<>> /\ Range(pending) \subseteq StoredIds

----------------------------------------------------------------------------
(* The guild VM (components/vm/src/vm.rs) *)

\* ShutdownReason: the two variants vm.rs names, one other variant, and the
\* fallback Unknown
Unknown == "Unknown"
CallerReasons == {"ThreadTermination", "Other"}

\* stores::config::Script; good = the TypeScript compiler accepts its source,
\* and ver tells one version of its source from another
ScriptVersion(id, good, ver) == [id |-> id, good |-> good, ver |-> ver]
Script(id, good) == ScriptVersion(id, good, 1)
ScriptLists == {<<Script(1, TRUE)>>, <<Script(1, TRUE), Script(2, FALSE)>>}
ScriptIdsOf(list) == [i \in 1 .. Len(list) |-> list[i].id]

\* VmEvent
EvShutdown(r) == [kind |-> "Shutdown", reason |-> r]
EvDispatched(id) == [kind |-> "DispatchedEvent", evt_id |-> id]
EvFinished == [kind |-> "VmFinished"]

\* VmCommand
CmdDispatchEvent(id) == [type |-> "DispatchEvent", evt_id |-> id]
CmdRestartWith(l) == [type |-> "Restart", scripts |-> l]
CmdLoad(s) == [type |-> "LoadScript", script |-> s]
CmdUpdate(s) == [type |-> "UpdateScript", script |-> s]
CmdUnload(l) == [type |-> "UnloadScripts", scripts |-> l]

ScriptCmds ==
    {CmdRestartWith(l) : l \in ScriptLists}
        \cup {CmdLoad(Script(2, g)) : g \in BOOLEAN}
        \cup {CmdUpdate(Script(1, TRUE)), CmdUnload(<<Script(1, TRUE)>>)}

\* ---- ScriptsStateStore. A ScriptState also records the incarnation that
\* created it (inc), which the program does not store.
ScriptState(sc, inc) == [script |-> sc, state |-> "Unloaded", inc |-> inc]

StoreIndex(st, id) ==
    IF \E i \in 1 .. Len(st) : st[i].script.id = id
    THEN CHOOSE i \in 1 .. Len(st) : st[i].script.id = id
    ELSE 0

\* compile, store with load_state = Unloaded; on a duplicate id, replace;
\* a compile error stores nothing
compile_add_script(st, sc, inc) ==
    IF ~sc.good THEN st
    ELSE IF StoreIndex(st, sc.id) # 0
         THEN [st EXCEPT ![StoreIndex(st, sc.id)] = ScriptState(sc, inc)]
         ELSE Append(st, ScriptState(sc, inc))

\* for script in scripts { compile_script(script) }
RECURSIVE CompileAll(_, _, _)
CompileAll(st, list, inc) ==
    IF list = <<>> THEN st
    ELSE CompileAll(compile_add_script(st, Head(list), inc), Tail(list), inc)

\* compile_script, lines 355-360: one log entry for each script of the list
\* that does not compile
CompileErrors(list) == Cardinality({i \in 1 .. Len(list) : ~list[i].good})

\* mutant: the script is run whether or not it compiled
AfterCompile_AlwaysRun(compiled) == "run_script"

\* handle_cmd, lines 302-304: run_script only if compile_script returned Some
AfterCompile(compiled) == IF compiled THEN "run_script" ELSE "loop"

is_failed_or_loaded(st, id) ==
    /\ StoreIndex(st, id) # 0
    /\ st[StoreIndex(st, id)].state \in {"Loaded", "Failed"}

set_state(st, id, state) ==
    IF StoreIndex(st, id) = 0 THEN st
    ELSE [st EXCEPT ![StoreIndex(st, id)].state = state]

StoreScripts(st) == [i \in 1 .. Len(st) |-> st[i].script]

\* mutant: restart keeps the script store of the previous incarnation
StoreAfterClear_Kept(st) == st

\* restart, lines 598-601: borrow.clear()
StoreAfterClear(st) == <<>>

\* ---- the command channel
\* mutant: the newest command is received first
RecvIndex_Last(q) == Len(q)

\* rx.poll_recv: the oldest queued command is received
RecvIndex(q) == 1

RemoveAt(q, i) == [j \in 1 .. (Len(q) - 1) |-> IF j < i THEN q[j] ELSE q[j + 1]]

\* ---- VmShutdownHandle::shutdown_vm, lines 821-833
\* mutant: the reason is kept when no handle is registered
ReasonAfter_Kept(reason) == reason

ReasonAfter(reason) == IF isolate_handle # NoHandle THEN reason ELSE NoReason
\* mutant: terminated is stored whether or not a handle is registered
TerminatedAfter_Always == TRUE

TerminatedAfter == terminated \/ isolate_handle # NoHandle

\* terminate_execution on the registered handle reaches the isolate the VM
\* owns only if that is the isolate the handle was taken from
TermAfter(force) == term_pending \/ (force /\ isolate_handle = runtime)

\* mutant: every invocation raises the limit
NearHeapLimit_AlwaysRaise(current, initial) == current + initial

\* near-heap-limit closure, lines 193-197
NearHeapLimit(current, initial) ==
    IF current # initial THEN current ELSE current + initial

\* mutant: the event always carries Unknown
EmittedReason_Unknown(r) == Unknown

\* run, lines 280-284
EmittedReason(r) == IF r # NoReason THEN r ELSE Unknown

\* IsolateCell::enter_isolate waits for the cell; the guard it returns is
\* dropped at the end of the scope that took it
CanEnter == cell \subseteq {"self"}

\* mutant: the guard outlives its scope
GuardDropped_Kept == cell

GuardDropped == cell \ {"self"}

Goto(pc) ==
    /\ vm_pc' = pc /\ js_ctx' = "none" /\ spin' = FALSE
    /\ cell' = GuardDropped /\ work' = work
EnterJs(ctx) ==
    /\ CanEnter
    /\ vm_pc' = "js" /\ js_ctx' = ctx /\ spin' = FALSE
    /\ cell' = cell \cup {"self"} /\ work' = TRUE
\* run, lines 251-256: VmFinished is sent, completed is set
EmitFinished ==
    /\ tx' = Append(tx, EvFinished)
    /\ completed' = TRUE
    /\ vm_pc' = "loop" /\ js_ctx' = "none" /\ spin' = FALSE
    /\ cell' = GuardDropped /\ work' = FALSE

\* ---- create_run, lines 128-132: the handle is registered, the scripts are
\* compiled
VmStart(l) ==
    /\ vm_pc = "start"
    /\ sh_pc = "idle"
    /\ isolate_handle' = runtime
    /\ script_store' = CompileAll(script_store, l, incarnation)
    /\ new_scripts' = l
    /\ rs_todo' = ScriptIdsOf(l)
    /\ rs_cont' = "create"
    /\ Goto("run_script")
    /\ UNCHANGED <<drain_for, cur_evt, rx, tx, runtime, heap_limit, ev,
                   term_pending, completed, exit_reason, terminated,
                   shutdown_reason, wakeups, sh_pc, sh_force, cmds_sent,
                   sh_calls, oom_calls, incarnation, accepted, forced,
                   handled, oom_on>>
    /\ guild_log' = guild_log + CompileErrors(l)
    /\ err_log' = IF CompileErrors(l) > 0 THEN "compile" ELSE "none"
    /\ UNCHANGED <<tmvars, scvars, opvars, rx_closed, loads>>

\* run_script up to mod_evaluate, lines 366-430, for the next script of the
\* loop; load_ok = load_side_module returns Ok. The script stays at the head
\* of rs_todo until run_script returns.
RunScript(load_ok) ==
    /\ vm_pc = "run_script"
    /\ rs_todo # <<>>
    /\ LET id == Head(rs_todo) IN
         IF StoreIndex(script_store, id) = 0
               \/ is_failed_or_loaded(script_store, id)
         THEN /\ rs_todo' = Tail(rs_todo)
              /\ err_log' = "none"
              /\ UNCHANGED <<script_store, vm_pc, js_ctx, spin, cell, work,
                             loads>>
         ELSE IF load_ok
         THEN /\ script_store' = set_state(script_store, id, "Loaded")
              /\ loads' = [loads EXCEPT ![id] = @ + 1]
              /\ EnterJs("eval")
              /\ err_log' = "none"
              /\ UNCHANGED rs_todo
         ELSE /\ CanEnter
              /\ script_store' = set_state(script_store, id, "Failed")
              /\ err_log' = "load"
              /\ rs_todo' = Tail(rs_todo)
              /\ UNCHANGED <<vm_pc, js_ctx, spin, cell, work, loads>>
    /\ UNCHANGED <<rs_cont, drain_for, new_scripts, cur_evt, rx, tx, runtime,
                   heap_limit, ev, term_pending, completed, exit_reason,
                   terminated, shutdown_reason, isolate_handle, wakeups,
                   sh_pc, sh_force, cmds_sent, sh_calls, oom_calls,
                   incarnation, accepted, forced, handled, oom_on>>
    /\ UNCHANGED <<tmvars, scvars, opvars, guild_log, rx_closed>>

\* the run_script loop is over: create_run goes on to run (line 138),
\* handle_cmd returns, restart logs "vm restarted"
RunScriptsDone ==
    /\ vm_pc = "run_script"
    /\ rs_todo = <<>>
    /\ Goto(CASE rs_cont = "create" -> "run_enter"
              [] rs_cont = "cmd" -> "loop"
              [] rs_cont = "restart" -> "restarted")
    /\ UNCHANGED <<rs_todo, rs_cont, drain_for, new_scripts, cur_evt, rx, tx,
                   script_store, runtime, heap_limit, ev, term_pending,
                   completed, exit_reason, terminated, shutdown_reason,
                   isolate_handle, wakeups, sh_pc, sh_force, cmds_sent,
                   sh_calls, oom_calls, incarnation, accepted, forced,
                   handled, oom_on>>
    /\ err_log' = "none"
    /\ UNCHANGED <<tmvars, scvars, opvars, guild_log, rx_closed, loads>>

\* run, lines 214-222
RunEnter ==
    /\ vm_pc = "run_enter"
    /\ sh_pc = "idle"
    /\ isolate_handle' = runtime
    /\ completed' = FALSE
    /\ Goto("loop")
    /\ UNCHANGED <<rs_todo, rs_cont, drain_for, new_scripts, cur_evt, rx, tx,
                   script_store, runtime, heap_limit, ev, term_pending,
                   exit_reason, terminated, shutdown_reason, wakeups, sh_pc,
                   sh_force, cmds_sent, sh_calls, oom_calls, incarnation,
                   accepted, forced, handled, oom_on>>
    /\ err_log' = "none"
    /\ UNCHANGED <<tmvars, scvars, opvars, guild_log, rx_closed, loads>>

\* while !self.check_terminated(), lines 223 and 289-293
LoopCheck ==
    /\ vm_pc = "loop"
    /\ Goto(IF terminated THEN "exit" ELSE "tick")
    /\ UNCHANGED <<rs_todo, rs_cont, drain_for, new_scripts, cur_evt, rx, tx,
                   script_store, runtime, heap_limit, ev, term_pending,
                   completed, exit_reason, terminated, shutdown_reason,
                   isolate_handle, wakeups, sh_pc, sh_force, cmds_sent,
                   sh_calls, oom_calls, incarnation, accepted, forced,
                   handled, oom_on>>
    /\ err_log' = "none"
    /\ UNCHANGED <<tmvars, scvars, opvars, guild_log, rx_closed, loads>>

\* mutant: the command channel is polled before the wakeup channel
TickChoice_CommandFirst(w, q, closed) ==
    IF q # <<>> \/ closed THEN "Command"
    ELSE IF w > 0 THEN "Continue"
    ELSE "EventLoop"

\* TickFuture::poll, lines 652-660: what one poll turns to, given the messages
\* in the wakeup channel, the queued commands and whether the command
\* channel is closed (poll_recv is then ready with None once it is empty)
TickChoice(w, q, closed) ==
    IF w > 0 THEN "Continue"
    ELSE IF q # <<>> \/ closed THEN "Command"
    ELSE "EventLoop"

\* TickFuture, lines 652-654: a wakeup is ready -> Continue
TickWakeup ==
    /\ vm_pc = "tick"
    /\ TickChoice(wakeups, rx, rx_closed) = "Continue"
    /\ wakeups' = wakeups - 1
    /\ completed' = FALSE
    /\ Goto("loop")
    /\ UNCHANGED <<rs_todo, rs_cont, drain_for, new_scripts, cur_evt, rx, tx,
                   script_store, runtime, heap_limit, ev, term_pending,
                   exit_reason, terminated, shutdown_reason, isolate_handle,
                   sh_pc, sh_force, cmds_sent, sh_calls, oom_calls,
                   incarnation, accepted, forced, handled, oom_on>>
    /\ err_log' = "none"
    /\ UNCHANGED <<tmvars, scvars, opvars, guild_log, rx_closed, loads>>

\* TickFuture, lines 656-658: no wakeup, a command is ready
CmdReady(type) ==
    /\ vm_pc = "tick"
    /\ TickChoice(wakeups, rx, rx_closed) = "Command"
    /\ rx # <<>>
    /\ rx[RecvIndex(rx)].type = type

\* restart, lines 589-595: stop_vm comes first
BeginRestart(list) ==
    /\ new_scripts' = list
    /\ incarnation' = incarnation + 1
    /\ drain_for' = "restart"
    /\ Goto("drain")

\* handle_cmd, line 300, and dispatch_event, lines 441-445
CmdDispatch ==
    /\ CmdReady("DispatchEvent")
    /\ rx' = RemoveAt(rx, RecvIndex(rx))
    /\ completed' = FALSE
    /\ tx' = Append(tx, EvDispatched(rx[RecvIndex(rx)].evt_id))
    /\ cur_evt' = rx[RecvIndex(rx)].evt_id
    /\ Goto("dispatch")
    /\ UNCHANGED <<rs_todo, rs_cont, drain_for, new_scripts, script_store,
                   runtime, heap_limit, ev, term_pending, exit_reason,
                   terminated, shutdown_reason, isolate_handle, wakeups,
                   sh_pc, sh_force, cmds_sent, sh_calls, oom_calls,
                   incarnation, accepted, forced, handled, oom_on>>
    /\ err_log' = "none"
    /\ UNCHANGED <<tmvars, scvars, opvars, guild_log, rx_closed, loads>>

\* dispatch_event, lines 447-489; core_ok = BotloaderCore.dispatchWrapper is
\* there and is a function
DispatchCall(core_ok) ==
    /\ vm_pc = "dispatch"
    /\ CanEnter
    /\ cur_evt' = 0
    /\ IF core_ok
       THEN handled' = Append(handled, cur_evt) /\ EnterJs("handler")
       ELSE UNCHANGED handled /\ Goto("loop")
    /\ UNCHANGED <<rs_todo, rs_cont, drain_for, new_scripts, rx, tx,
                   script_store, runtime, heap_limit, ev, term_pending,
                   completed, exit_reason, terminated, shutdown_reason,
                   isolate_handle, wakeups, sh_pc, sh_force, cmds_sent,
                   sh_calls, oom_calls, incarnation, accepted, forced,
                   oom_on>>
    /\ err_log' = "none"
    /\ UNCHANGED <<tmvars, scvars, opvars, guild_log, rx_closed, loads>>

\* handle_cmd, lines 297-299
CmdRestart ==
    /\ CmdReady("Restart")
    /\ rx' = RemoveAt(rx, RecvIndex(rx))
    /\ completed' = FALSE
    /\ BeginRestart(rx[RecvIndex(rx)].scripts)
    /\ UNCHANGED <<rs_todo, rs_cont, cur_evt, tx, script_store, runtime,
                   heap_limit, ev, term_pending, exit_reason, terminated,
                   shutdown_reason, isolate_handle, wakeups, sh_pc, sh_force,
                   cmds_sent, sh_calls, oom_calls, accepted, forced, handled,
                   oom_on>>
    /\ err_log' = "none"
    /\ UNCHANGED <<tmvars, scvars, opvars, guild_log, rx_closed, loads>>

\* handle_cmd, lines 301-305
CmdLoadScript ==
    /\ CmdReady("LoadScript")
    /\ rx' = RemoveAt(rx, RecvIndex(rx))
    /\ completed' = FALSE
    /\ LET sc == rx[RecvIndex(rx)].script IN
         IF sc.good
         THEN /\ script_store' = compile_add_script(script_store, sc, incarnation)
              /\ rs_todo' = <<sc.id>>
              /\ rs_cont' = "cmd"
              /\ Goto(AfterCompile(TRUE))
              /\ UNCHANGED guild_log
              /\ err_log' = "none"
         ELSE /\ UNCHANGED <<script_store, rs_todo, rs_cont>>
              /\ guild_log' = guild_log + 1
              /\ err_log' = "compile"
              /\ Goto(AfterCompile(FALSE))
    /\ UNCHANGED <<drain_for, new_scripts, cur_evt, tx, runtime, heap_limit,
                   ev, term_pending, exit_reason, terminated,
                   shutdown_reason, isolate_handle, wakeups, sh_pc, sh_force,
                   cmds_sent, sh_calls, oom_calls, incarnation, accepted,
                   forced, handled, oom_on>>
    /\ UNCHANGED <<tmvars, scvars, opvars, rx_closed, loads>>

\* handle_cmd, lines 306-326
CmdUpdateScript ==
    /\ CmdReady("UpdateScript")
    /\ rx' = RemoveAt(rx, RecvIndex(rx))
    /\ completed' = FALSE
    /\ LET sc == rx[RecvIndex(rx)].script
           cloned == StoreScripts(script_store) IN
         IF StoreIndex(script_store, sc.id) # 0
         THEN BeginRestart([i \in 1 .. Len(cloned) |->
                               IF cloned[i].id = sc.id THEN sc ELSE cloned[i]])
         ELSE /\ UNCHANGED <<new_scripts, incarnation, drain_for>>
              /\ Goto("loop")
    /\ UNCHANGED <<rs_todo, rs_cont, cur_evt, tx, script_store, runtime,
                   heap_limit, ev, term_pending, exit_reason, terminated,
                   shutdown_reason, isolate_handle, wakeups, sh_pc, sh_force,
                   cmds_sent, sh_calls, oom_calls, accepted, forced, handled,
                   oom_on>>
    /\ err_log' = "none"
    /\ UNCHANGED <<tmvars, scvars, opvars, guild_log, rx_closed, loads>>

\* mutant: the scripts to unload are kept
Without_Nothing(scripts, gone) == scripts

\* handle_cmd, lines 329-340: the scripts whose id is not among those of gone
Without(scripts, gone) ==
    SelectSeq(scripts,
              LAMBDA sc : ~ \E j \in 1 .. Len(gone) : gone[j].id = sc.id)

\* handle_cmd, lines 327-343
CmdUnloadScripts ==
    /\ CmdReady("UnloadScripts")
    /\ rx' = RemoveAt(rx, RecvIndex(rx))
    /\ completed' = FALSE
    /\ BeginRestart(Without(StoreScripts(script_store),
                            rx[RecvIndex(rx)].scripts))
    /\ UNCHANGED <<rs_todo, rs_cont, cur_evt, tx, script_store, runtime,
                   heap_limit, ev, term_pending, exit_reason, terminated,
                   shutdown_reason, isolate_handle, wakeups, sh_pc, sh_force,
                   cmds_sent, sh_calls, oom_calls, accepted, forced, handled,
                   oom_on>>
    /\ err_log' = "none"
    /\ UNCHANGED <<tmvars, scvars, opvars, guild_log, rx_closed, loads>>

\* mutant: the VM leaves the run loop when the senders are gone
AfterCommandNone_Exit == "exit"

\* run, lines 238-240: the arm of Command(None) is empty
AfterCommandNone == "loop"

\* TickFuture, lines 656-658, and run, lines 238-240: every sender is gone and
\* no command is queued -> Command(None), which run ignores
TickCommandNone ==
    /\ vm_pc = "tick"
    /\ TickChoice(wakeups, rx, rx_closed) = "Command"
    /\ rx = <<>>
    /\ completed' = FALSE
    /\ Goto(AfterCommandNone)
    /\ UNCHANGED <<rs_todo, rs_cont, drain_for, new_scripts, cur_evt, rx, tx,
                   script_store, runtime, heap_limit, ev, term_pending,
                   exit_reason, terminated, shutdown_reason, isolate_handle,
                   wakeups, sh_pc, sh_force, cmds_sent, sh_calls, oom_calls,
                   incarnation, accepted, forced, handled, oom_on>>
    /\ err_log' = "none"
    /\ UNCHANGED <<tmvars, scvars, opvars, guild_log, rx_closed, loads>>

\* TickFuture, lines 660-665: neither channel is ready, the event loop has a
\* callback to run
TickEventLoop ==
    /\ vm_pc = "tick"
    /\ TickChoice(wakeups, rx, rx_closed) = "EventLoop"
    /\ ev = "ready"
    /\ ev' = "idle"
    /\ EnterJs("tick")
    /\ UNCHANGED <<rs_todo, rs_cont, drain_for, new_scripts, cur_evt, rx, tx,
                   script_store, runtime, heap_limit, term_pending,
                   completed, exit_reason, terminated, shutdown_reason,
                   isolate_handle, wakeups, sh_pc, sh_force, cmds_sent,
                   sh_calls, oom_calls, incarnation, accepted, forced,
                   handled, oom_on>>
    /\ err_log' = "none"
    /\ UNCHANGED <<tmvars, scvars, opvars, guild_log, rx_closed, loads>>

\* TickFuture, lines 677-683, and run, lines 251-256: the event loop is done
\* and the previous tick was not a Completed one
TickCompleted ==
    /\ vm_pc = "tick"
    /\ TickChoice(wakeups, rx, rx_closed) = "EventLoop"
    /\ CanEnter
    /\ ev = "idle"
    /\ ~completed
    /\ EmitFinished
    /\ UNCHANGED <<rs_todo, rs_cont, drain_for, new_scripts, cur_evt, rx,
                   script_store, runtime, heap_limit, ev, term_pending,
                   exit_reason, terminated, shutdown_reason, isolate_handle,
                   wakeups, sh_pc, sh_force, cmds_sent, sh_calls, oom_calls,
                   incarnation, accepted, forced, handled, oom_on>>
    /\ err_log' = "none"
    /\ UNCHANGED <<tmvars, scvars, opvars, guild_log, rx_closed, loads>>

\* stop_vm is over: restart goes on to rebuild, run goes on to send Shutdown
DrainFinished ==
    /\ drain_for' = "none"
    /\ Goto(IF drain_for = "restart" THEN "restart_swap" ELSE "send")

\* mutant: a script error ends the run loop
AfterVmError_Exit == "exit"

\* run, lines 242-250: the VmError arm logs and the loop goes on
AfterVmError == "loop"

\* what the VM does when the interpreter returns; ok = no error. The errors
\* of the tick (lines 242-250), of run_until_completion (lines 550-552) and of
\* complete_module_eval (lines 571-573) are logged.
AfterJs(ok) ==
    CASE js_ctx = "handler" ->
           /\ Goto("loop")
           /\ err_log' = "none"
           /\ UNCHANGED <<tx, completed, drain_for, rs_todo>>
      [] js_ctx = "tick" ->
           IF ~ok
           THEN /\ Goto(AfterVmError)
                /\ completed' = FALSE
                /\ err_log' = "script"
                /\ UNCHANGED <<tx, drain_for, rs_todo>>
           ELSE IF ev' = "idle" /\ ~completed
           THEN /\ EmitFinished
                /\ err_log' = "none"
                /\ UNCHANGED <<drain_for, rs_todo>>
           ELSE /\ Goto("tick")
                /\ err_log' = "none"
                /\ UNCHANGED <<tx, completed, drain_for, rs_todo>>
      [] js_ctx = "drain" ->
           /\ UNCHANGED <<tx, completed, rs_todo>>
           /\ err_log' = IF ok THEN "none" ELSE "stop"
           /\ IF ok /\ ev' = "idle"
              THEN DrainFinished
              ELSE Goto("drain") /\ UNCHANGED drain_for
      [] js_ctx = "eval" ->
           /\ UNCHANGED <<tx, completed, drain_for>>
           /\ err_log' = IF ok THEN "none" ELSE "eval"
           /\ IF ok /\ ev' # "idle"
              THEN Goto("eval_wait") /\ UNCHANGED rs_todo
              ELSE Goto("run_script") /\ rs_todo' = Tail(rs_todo)

\* the script keeps running; a requested termination does not let it
JsSpin ==
    /\ vm_pc = "js"
    /\ ~term_pending
    /\ spin' = ~spin
    /\ UNCHANGED <<vm_pc, js_ctx, cell, work, rs_todo, rs_cont, drain_for,
                   new_scripts,
                   cur_evt, rx, tx, script_store, runtime, heap_limit, ev,
                   term_pending, completed, exit_reason, terminated,
                   shutdown_reason, isolate_handle, wakeups, sh_pc, sh_force,
                   cmds_sent, sh_calls, oom_calls, incarnation, accepted,
                   forced, handled, oom_on>>
    /\ UNCHANGED <<tmvars, scvars, opvars, guild_log>>
    /\ UNCHANGED <<err_log, rx_closed, loads>>

\* the script returns; ev_next = what it leaves in the event loop
JsFinish(ok, ev_next) ==
    /\ vm_pc = "js"
    /\ ~term_pending
    /\ ev' = IF ev = "idle" THEN ev_next ELSE ev
    /\ AfterJs(ok)
    /\ UNCHANGED <<rs_cont, new_scripts, cur_evt, rx, script_store,
                   runtime, heap_limit, term_pending, exit_reason,
                   terminated, shutdown_reason, isolate_handle, wakeups,
                   sh_pc, sh_force, cmds_sent, sh_calls, oom_calls,
                   incarnation, accepted, forced, handled, oom_on>>
    /\ UNCHANGED <<tmvars, scvars, opvars, guild_log, rx_closed, loads>>

\* a requested terminate_execution ends the running script with an error;
\* whether the engine then lets the isolate run scripts again (keep = FALSE)
\* or goes on terminating them (keep = TRUE) is left open
JsAbort(keep) ==
    /\ vm_pc = "js"
    /\ term_pending
    /\ term_pending' = keep
    /\ ev' = ev
    /\ AfterJs(FALSE)
    /\ UNCHANGED <<rs_cont, new_scripts, cur_evt, rx, script_store,
                   runtime, heap_limit, exit_reason, terminated,
                   shutdown_reason, isolate_handle, wakeups, sh_pc, sh_force,
                   cmds_sent, sh_calls, oom_calls, incarnation, accepted,
                   forced, handled, oom_on>>
    /\ UNCHANGED <<tmvars, scvars, opvars, guild_log, rx_closed, loads>>

\* create_isolate, lines 187-198: the near-heap-limit callback, run by the
\* engine inside the running script; it calls shutdown_vm(OutOfMemory, true)
JsOomUpTo(n) ==
    /\ vm_pc = "js"
    /\ oom_calls < n
    /\ sh_pc = "idle"
    /\ oom_calls' = oom_calls + 1
    /\ oom_on' = oom_on \cup {runtime}
    /\ shutdown_reason' = ReasonAfter("OutOfMemory")
    /\ terminated' = TerminatedAfter
    /\ term_pending' = TermAfter(TRUE)
    /\ wakeups' = wakeups + 1
    /\ accepted' = IF isolate_handle # NoHandle
                   THEN accepted \cup {"OutOfMemory"} ELSE accepted
    /\ forced' = (forced \/ isolate_handle # NoHandle)
    /\ heap_limit' = NearHeapLimit(heap_limit, InitialHeapLimit)
    /\ UNCHANGED <<vm_pc, js_ctx, spin, cell, work, rs_todo, rs_cont, drain_for,
                   new_scripts, cur_evt, rx, tx, script_store, runtime, ev,
                   completed, exit_reason, isolate_handle, sh_pc, sh_force,
                   cmds_sent, sh_calls, incarnation, handled>>
    /\ UNCHANGED <<tmvars, scvars, opvars, guild_log>>
    /\ UNCHANGED <<err_log, rx_closed, loads>>

JsOom == JsOomUpTo(MaxOom)

\* complete_module_eval, lines 559-577 and 734-763: the module has not
\* resolved yet
EvalWait ==
    /\ vm_pc = "eval_wait"
    /\ ev # "pending"
    /\ IF ev = "ready"
       THEN ev' = "idle" /\ EnterJs("eval") /\ UNCHANGED rs_todo
       ELSE /\ CanEnter
            /\ ev' = ev /\ Goto("run_script") /\ rs_todo' = Tail(rs_todo)
    /\ UNCHANGED <<rs_cont, drain_for, new_scripts, cur_evt, rx, tx,
                   script_store, runtime, heap_limit, term_pending,
                   completed, exit_reason, terminated, shutdown_reason,
                   isolate_handle, wakeups, sh_pc, sh_force, cmds_sent,
                   sh_calls, oom_calls, incarnation, accepted, forced,
                   handled, oom_on>>
    /\ err_log' = "none"
    /\ UNCHANGED <<tmvars, scvars, opvars, guild_log, rx_closed, loads>>

\* stop_vm / run_until_completion, lines 523-557 and 698-721
DrainPoll ==
    /\ vm_pc = "drain"
    /\ ev # "pending"
    /\ IF ev = "ready"
       THEN ev' = "idle" /\ EnterJs("drain") /\ UNCHANGED drain_for
       ELSE CanEnter /\ ev' = ev /\ DrainFinished
    /\ UNCHANGED <<rs_todo, rs_cont, new_scripts, cur_evt, rx, tx,
                   script_store, runtime, heap_limit, term_pending,
                   completed, exit_reason, terminated, shutdown_reason,
                   isolate_handle, wakeups, sh_pc, sh_force, cmds_sent,
                   sh_calls, oom_calls, incarnation, accepted, forced,
                   handled, oom_on>>
    /\ err_log' = "none"
    /\ UNCHANGED <<tmvars, scvars, opvars, guild_log, rx_closed, loads>>

\* stop_vm, lines 528-541: the 15 s timeout ends the wait for a pending op
DrainTimeout ==
    /\ vm_pc = "drain"
    /\ ev = "pending"
    /\ DrainFinished
    /\ UNCHANGED <<rs_todo, rs_cont, new_scripts, cur_evt, rx, tx,
                   script_store, runtime, heap_limit, ev, term_pending,
                   completed, exit_reason, terminated, shutdown_reason,
                   isolate_handle, wakeups, sh_pc, sh_force, cmds_sent,
                   sh_calls, oom_calls, incarnation, accepted, forced,
                   handled, oom_on>>
    /\ err_log' = "stop"
    /\ UNCHANGED <<tmvars, scvars, opvars, guild_log, rx_closed, loads>>

\* restart, lines 598-614: the store is cleared, the new scripts are compiled,
\* a new isolate replaces the old one
RestartSwap ==
    /\ vm_pc = "restart_swap"
    /\ script_store' = CompileAll(StoreAfterClear(script_store), new_scripts,
                                  incarnation)
    /\ runtime' = runtime + 1
    /\ heap_limit' = InitialHeapLimit
    /\ ev' = "idle"
    /\ term_pending' = FALSE
    /\ Goto("restart_emit")
    /\ UNCHANGED <<rs_todo, rs_cont, drain_for, new_scripts, cur_evt, rx, tx,
                   completed, exit_reason, terminated, shutdown_reason,
                   isolate_handle, wakeups, sh_pc, sh_force, cmds_sent,
                   sh_calls, oom_calls, incarnation, accepted, forced,
                   handled, oom_on>>
    /\ guild_log' = guild_log + CompileErrors(new_scripts)
    /\ err_log' = IF CompileErrors(new_scripts) > 0 THEN "compile" ELSE "none"
    /\ loads' = [id \in ScriptIds |-> 0]
    /\ UNCHANGED <<tmvars, scvars, opvars, rx_closed>>

\* restart, lines 615-619: the new isolate's handle is registered, the
\* run_script loop starts
RestartEmit ==
    /\ vm_pc = "restart_emit"
    /\ sh_pc = "idle"
    /\ isolate_handle' = runtime
    /\ rs_todo' = ScriptIdsOf(new_scripts)
    /\ rs_cont' = "restart"
    /\ Goto("run_script")
    /\ UNCHANGED <<drain_for, new_scripts, cur_evt, rx, tx, script_store,
                   runtime, heap_limit, ev, term_pending, completed,
                   exit_reason, terminated, shutdown_reason, wakeups, sh_pc,
                   sh_force, cmds_sent, sh_calls, oom_calls, incarnation,
                   accepted, forced, handled, oom_on>>
    /\ err_log' = "none"
    /\ UNCHANGED <<tmvars, scvars, opvars, guild_log, rx_closed, loads>>

\* restart, lines 621-625: restart returns
Restarted ==
    /\ vm_pc = "restarted"
    /\ Goto("loop")
    /\ UNCHANGED <<rs_todo, rs_cont, drain_for, new_scripts, cur_evt, rx, tx,
                   script_store, runtime, heap_limit, ev, term_pending,
                   completed, exit_reason, terminated, shutdown_reason,
                   isolate_handle, wakeups, sh_pc, sh_force, cmds_sent,
                   sh_calls, oom_calls, incarnation, accepted, forced,
                   handled, oom_on>>
    /\ err_log' = "none"
    /\ UNCHANGED <<tmvars, scvars, opvars, guild_log, rx_closed, loads>>

\* mutant: stop_vm is run whatever the reason
NeedsStopVm_Always(reason) == TRUE

\* run, lines 271-274: if let Some(ShutdownReason::ThreadTermination)
NeedsStopVm(reason) == reason = "ThreadTermination"

\* run, lines 260-274: the reason is read under the lock; only
\* ThreadTermination drains the event loop
ExitRead ==
    /\ vm_pc = "exit"
    /\ sh_pc = "idle"
    /\ exit_reason' = shutdown_reason
    /\ IF NeedsStopVm(shutdown_reason)
       THEN drain_for' = "exit" /\ Goto("drain")
       ELSE UNCHANGED drain_for /\ Goto("send")
    /\ UNCHANGED <<rs_todo, rs_cont, new_scripts, cur_evt, rx, tx,
                   script_store, runtime, heap_limit, ev, term_pending,
                   completed, terminated, shutdown_reason, isolate_handle,
                   wakeups, sh_pc, sh_force, cmds_sent, sh_calls, oom_calls,
                   incarnation, accepted, forced, handled, oom_on>>
    /\ err_log' = "none"
    /\ UNCHANGED <<tmvars, scvars, opvars, guild_log, rx_closed, loads>>

\* mutant: the run loop is entered again after the send
AfterShutdownSent_Loop == "loop"

\* run, line 287: run returns, and create_run with it (line 138)
AfterShutdownSent == "done"

\* run, lines 276-286
SendShutdown ==
    /\ vm_pc = "send"
    /\ tx' = Append(tx, EvShutdown(EmittedReason(exit_reason)))
    /\ Goto(AfterShutdownSent)
    /\ UNCHANGED <<rs_todo, rs_cont, drain_for, new_scripts, cur_evt, rx,
                   script_store, runtime, heap_limit, ev, term_pending,
                   completed, exit_reason, terminated, shutdown_reason,
                   isolate_handle, wakeups, sh_pc, sh_force, cmds_sent,
                   sh_calls, oom_calls, incarnation, accepted, forced,
                   handled, oom_on>>
    /\ err_log' = "none"
    /\ UNCHANGED <<tmvars, scvars, opvars, guild_log, rx_closed, loads>>

\* ---- other threads
\* shutdown_vm, lines 821-826 and 832: under the write lock the reason is
\* written and, with a handle registered, terminated is stored
ShutdownBegin(reason, force) ==
    /\ sh_pc = "idle"
    /\ sh_calls < MaxShutdownCalls
    /\ vm_pc # "done"
    /\ sh_calls' = sh_calls + 1
    /\ shutdown_reason' = ReasonAfter(reason)
    /\ terminated' = TerminatedAfter
    /\ accepted' = IF isolate_handle # NoHandle
                   THEN accepted \cup {reason} ELSE accepted
    /\ sh_pc' = "locked"
    /\ sh_force' = (force /\ isolate_handle # NoHandle)
    /\ UNCHANGED <<vm_pc, js_ctx, spin, cell, work, rs_todo, rs_cont, drain_for,
                   new_scripts, cur_evt, rx, tx, script_store, runtime,
                   heap_limit, ev, term_pending, completed, exit_reason,
                   isolate_handle, wakeups, cmds_sent, oom_calls,
                   incarnation, forced, handled, oom_on>>
    /\ UNCHANGED <<tmvars, scvars, opvars, guild_log>>
    /\ UNCHANGED <<err_log, rx_closed, loads>>

\* shutdown_vm, lines 828-837: terminate_execution if forced, the wakeup, and
\* the lock is released
ShutdownFinish ==
    /\ sh_pc = "locked"
    /\ term_pending' = TermAfter(sh_force)
    /\ forced' = (forced \/ sh_force)
    /\ wakeups' = wakeups + 1
    /\ sh_pc' = "idle"
    /\ sh_force' = FALSE
    /\ UNCHANGED <<vm_pc, js_ctx, spin, cell, work, rs_todo, rs_cont, drain_for,
                   new_scripts, cur_evt, rx, tx, script_store, runtime,
                   heap_limit, ev, completed, exit_reason, terminated,
                   shutdown_reason, isolate_handle, cmds_sent, sh_calls,
                   oom_calls, incarnation, accepted, handled, oom_on>>
    /\ UNCHANGED <<tmvars, scvars, opvars, guild_log>>
    /\ UNCHANGED <<err_log, rx_closed, loads>>

\* the guild handler sends DispatchEvent; evt_ids grow in sending order
SendDispatch ==
    /\ vm_pc # "done"
    /\ ~rx_closed
    /\ cmds_sent.dispatch < MaxDispatch
    /\ cmds_sent' = [cmds_sent EXCEPT !.dispatch = @ + 1]
    /\ rx' = Append(rx, CmdDispatchEvent(cmds_sent.dispatch + cmds_sent.script + 1))
    /\ UNCHANGED <<vm_pc, js_ctx, spin, cell, work, rs_todo, rs_cont, drain_for,
                   new_scripts, cur_evt, tx, script_store, runtime,
                   heap_limit, ev, term_pending, completed, exit_reason,
                   terminated, shutdown_reason, isolate_handle, wakeups,
                   sh_pc, sh_force, sh_calls, oom_calls, incarnation,
                   accepted, forced, handled, oom_on>>
    /\ UNCHANGED <<tmvars, scvars, opvars, guild_log>>
    /\ UNCHANGED <<err_log, rx_closed, loads>>

\* the guild handler sends one of the script commands
SendScriptCmd(cmd) ==
    /\ vm_pc # "done"
    /\ ~rx_closed
    /\ cmds_sent.script < MaxScriptCmds
    /\ cmds_sent' = [cmds_sent EXCEPT !.script = @ + 1]
    /\ rx' = Append(rx, cmd)
    /\ UNCHANGED <<vm_pc, js_ctx, spin, cell, work, rs_todo, rs_cont, drain_for,
                   new_scripts, cur_evt, tx, script_store, runtime,
                   heap_limit, ev, term_pending, completed, exit_reason,
                   terminated, shutdown_reason, isolate_handle, wakeups,
                   sh_pc, sh_force, sh_calls, oom_calls, incarnation,
                   accepted, forced, handled, oom_on>>
    /\ UNCHANGED <<tmvars, scvars, opvars, guild_log>>
    /\ UNCHANGED <<err_log, rx_closed, loads>>

\* the guild handler sends LoadScript, of a script that compiles or of one
\* that does not
SendLoadScript(sc) ==
    /\ vm_pc # "done"
    /\ ~rx_closed
    /\ cmds_sent.script < MaxLoadCmds
    /\ cmds_sent' = [cmds_sent EXCEPT !.script = @ + 1]
    /\ rx' = Append(rx, CmdLoad(sc))
    /\ UNCHANGED <<vm_pc, js_ctx, spin, cell, work, rs_todo, rs_cont, drain_for,
                   new_scripts, cur_evt, tx, script_store, runtime,
                   heap_limit, ev, term_pending, completed, exit_reason,
                   terminated, shutdown_reason, isolate_handle, wakeups,
                   sh_pc, sh_force, sh_calls, oom_calls, incarnation,
                   accepted, forced, handled, oom_on>>
    /\ UNCHANGED <<tmvars, scvars, opvars, guild_log>>
    /\ UNCHANGED <<err_log, rx_closed, loads>>

\* the guild handler sends UpdateScript with a new version of a script
SendUpdateScript(sc) ==
    /\ vm_pc # "done"
    /\ ~rx_closed
    /\ cmds_sent.script < MaxLoadCmds
    /\ cmds_sent' = [cmds_sent EXCEPT !.script = @ + 1]
    /\ rx' = Append(rx, CmdUpdate(sc))
    /\ UNCHANGED <<vm_pc, js_ctx, spin, cell, work, rs_todo, rs_cont,
                   drain_for, new_scripts, cur_evt, tx, script_store, runtime,
                   heap_limit, ev, term_pending, completed, exit_reason,
                   terminated, shutdown_reason, isolate_handle, wakeups,
                   sh_pc, sh_force, sh_calls, oom_calls, incarnation,
                   accepted, forced, handled, oom_on>>
    /\ UNCHANGED <<tmvars, scvars, opvars, guild_log>>
    /\ UNCHANGED <<err_log, rx_closed, loads>>

\* the guild handler sends UnloadScripts
SendUnloadScripts(l) ==
    /\ vm_pc # "done"
    /\ ~rx_closed
    /\ cmds_sent.script < MaxLoadCmds
    /\ cmds_sent' = [cmds_sent EXCEPT !.script = @ + 1]
    /\ rx' = Append(rx, CmdUnload(l))
    /\ UNCHANGED <<vm_pc, js_ctx, spin, cell, work, rs_todo, rs_cont,
                   drain_for, new_scripts, cur_evt, tx, script_store, runtime,
                   heap_limit, ev, term_pending, completed, exit_reason,
                   terminated, shutdown_reason, isolate_handle, wakeups,
                   sh_pc, sh_force, sh_calls, oom_calls, incarnation,
                   accepted, forced, handled, oom_on>>
    /\ UNCHANGED <<tmvars, scvars, opvars, guild_log>>
    /\ UNCHANGED <<err_log, rx_closed, loads>>

\* every sender of the command channel is dropped
DropSenders ==
    /\ vm_pc # "done"
    /\ ~rx_closed
    /\ rx_closed' = TRUE
    /\ UNCHANGED <<vm_pc, js_ctx, spin, cell, work, rs_todo, rs_cont,
                   drain_for, new_scripts, cur_evt, rx, tx, script_store,
                   runtime, heap_limit, ev, term_pending, completed,
                   exit_reason, terminated, shutdown_reason, isolate_handle,
                   wakeups, sh_pc, sh_force, cmds_sent, sh_calls, oom_calls,
                   incarnation, accepted, forced, handled, oom_on>>
    /\ UNCHANGED <<tmvars, scvars, opvars, guild_log>>
    /\ UNCHANGED <<err_log, loads>>

\* the VM of another guild enters the IsolateCell
OtherEnter ==
    /\ cell = {}
    /\ cell' = {"other"}
    /\ UNCHANGED <<vm_pc, js_ctx, spin, work, rs_todo, rs_cont,
                   drain_for, new_scripts, cur_evt, rx, tx, script_store,
                   runtime, heap_limit, ev, term_pending, completed,
                   exit_reason, terminated, shutdown_reason, isolate_handle,
                   wakeups, sh_pc, sh_force, cmds_sent, sh_calls, oom_calls,
                   incarnation, accepted, forced, handled, oom_on>>
    /\ UNCHANGED <<tmvars, scvars, opvars, guild_log>>
    /\ UNCHANGED <<err_log, rx_closed, loads>>

\* and drops its guard
OtherLeave ==
    /\ "other" \in cell
    /\ cell' = cell \ {"other"}
    /\ UNCHANGED <<vm_pc, js_ctx, spin, work, rs_todo, rs_cont,
                   drain_for, new_scripts, cur_evt, rx, tx, script_store,
                   runtime, heap_limit, ev, term_pending, completed,
                   exit_reason, terminated, shutdown_reason, isolate_handle,
                   wakeups, sh_pc, sh_force, cmds_sent, sh_calls, oom_calls,
                   incarnation, accepted, forced, handled, oom_on>>
    /\ UNCHANGED <<tmvars, scvars, opvars, guild_log>>
    /\ UNCHANGED <<err_log, rx_closed, loads>>

\* an op the script started completes: its callback can run
OpComplete ==
    /\ vm_pc # "done"
    /\ ev = "pending"
    /\ ev' = "ready"
    /\ UNCHANGED <<vm_pc, js_ctx, spin, cell, work, rs_todo, rs_cont, drain_for,
                   new_scripts, cur_evt, rx, tx, script_store, runtime,
                   heap_limit, term_pending, completed, exit_reason,
                   terminated, shutdown_reason, isolate_handle, wakeups,
                   sh_pc, sh_force, cmds_sent, sh_calls, oom_calls,
                   incarnation, accepted, forced, handled, oom_on>>
    /\ UNCHANGED <<tmvars, scvars, opvars, guild_log>>
    /\ UNCHANGED <<err_log, rx_closed, loads>>

InitVM == InitTM

\* the steps of the VM task that do not depend on what the script does,
\* but for the handling of DispatchEvent
VmControl ==
    \/ \E l \in ScriptLists : VmStart(l)
    \/ \E load_ok \in BOOLEAN : RunScript(load_ok)
    \/ RunScriptsDone
    \/ RunEnter
    \/ LoopCheck
    \/ TickWakeup
    \/ CmdRestart
    \/ CmdLoadScript
    \/ CmdUpdateScript
    \/ CmdUnloadScripts
    \/ TickEventLoop
    \/ TickCompleted
    \/ \E keep \in BOOLEAN : JsAbort(keep)
    \/ EvalWait
    \/ DrainPoll
    \/ DrainTimeout
    \/ RestartSwap
    \/ RestartEmit
    \/ Restarted
    \/ ExitRead
    \/ SendShutdown

\* the script does a step: it goes on or it returns
JsStep ==
    \/ JsSpin
    \/ \E ok \in BOOLEAN, ev_next \in {"idle", "pending"} : JsFinish(ok, ev_next)

NextVM ==
    \/ VmControl
    \/ CmdDispatch
    \/ \E core_ok \in BOOLEAN : DispatchCall(core_ok)
    \/ \E ok \in BOOLEAN, ev_next \in {"idle", "pending"} : JsFinish(ok, ev_next)
    \/ JsOom
    \/ \E reason \in CallerReasons, force \in BOOLEAN : ShutdownBegin(reason, force)
    \/ ShutdownFinish
    \/ SendDispatch
    \/ \E cmd \in ScriptCmds : SendScriptCmd(cmd)
    \/ OpComplete

SpecVM == InitVM /\ [][NextVM]_vars

\* The VM task is scheduled, the engine honours a requested termination, the
\* 15 s of stop_vm run out, a running script does steps, a shutdown_vm call
\* returns, and every op completes. Nothing makes a script return.
FairVM ==
    /\ WF_vars(VmControl)
    /\ SF_vars(DrainTimeout)
    /\ WF_vars(JsStep)
    /\ WF_vars(ShutdownFinish)
    /\ WF_vars(OpComplete)

\* The VM with scripts that can run on and on; no DispatchEvent is sent and
\* no near-heap-limit callback fires.
NextVMFair ==
    \/ VmControl
    \/ JsStep
    \/ \E reason \in CallerReasons, force \in BOOLEAN : ShutdownBegin(reason, force)
    \/ ShutdownFinish
    \/ \E cmd \in ScriptCmds : SendScriptCmd(cmd)
    \/ OpComplete

SpecVMFair == InitVM /\ [][NextVMFair]_vars /\ FairVM

\* The VM when the only commands it is sent are LoadScript commands, one after
\* another: no restart, no DispatchEvent, no near-heap-limit callback.
NextVMLoad ==
    \/ \E l \in ScriptLists : VmStart(l)
    \/ \E load_ok \in BOOLEAN : RunScript(load_ok)
    \/ RunScriptsDone
    \/ RunEnter
    \/ LoopCheck
    \/ TickWakeup
    \/ CmdLoadScript
    \/ TickEventLoop
    \/ TickCompleted
    \/ \E ok \in BOOLEAN, ev_next \in {"idle", "pending"} : JsFinish(ok, ev_next)
    \/ \E keep \in BOOLEAN : JsAbort(keep)
    \/ EvalWait
    \/ DrainPoll
    \/ DrainTimeout
    \/ ExitRead
    \/ SendShutdown
    \/ \E reason \in CallerReasons, force \in BOOLEAN : ShutdownBegin(reason, force)
    \/ ShutdownFinish
    \/ \E good \in BOOLEAN : SendLoadScript(Script(2, good))
    \/ OpComplete

SpecVMLoad == InitVM /\ [][NextVMLoad]_vars

\* The VM next to the VM of another guild, with DispatchEvent commands,
\* shutdown_vm calls and a command channel that can be closed: no script
\* command, no near-heap-limit callback.
NextVMCell ==
    \/ \E l \in ScriptLists : VmStart(l)
    \/ \E load_ok \in BOOLEAN : RunScript(load_ok)
    \/ RunScriptsDone
    \/ RunEnter
    \/ LoopCheck
    \/ TickWakeup
    \/ TickCommandNone
    \/ CmdDispatch
    \/ \E core_ok \in BOOLEAN : DispatchCall(core_ok)
    \/ TickEventLoop
    \/ TickCompleted
    \/ \E ok \in BOOLEAN, ev_next \in {"idle", "pending"} : JsFinish(ok, ev_next)
    \/ \E keep \in BOOLEAN : JsAbort(keep)
    \/ EvalWait
    \/ DrainPoll
    \/ DrainTimeout
    \/ ExitRead
    \/ SendShutdown
    \/ \E reason \in CallerReasons, force \in BOOLEAN : ShutdownBegin(reason, force)
    \/ ShutdownFinish
    \/ SendDispatch
    \/ DropSenders
    \/ OtherEnter
    \/ OtherLeave
    \/ OpComplete

SpecVMCell == InitVM /\ [][NextVMCell]_vars

\* The VM whose scripts run into the heap limit, several times in a row: no
\* command is sent.
NextVMOom ==
    \/ \E l \in ScriptLists : VmStart(l)
    \/ \E load_ok \in BOOLEAN : RunScript(load_ok)
    \/ RunScriptsDone
    \/ RunEnter
    \/ LoopCheck
    \/ TickWakeup
    \/ TickEventLoop
    \/ TickCompleted
    \/ \E ok \in BOOLEAN, ev_next \in {"idle", "pending"} : JsFinish(ok, ev_next)
    \/ \E keep \in BOOLEAN : JsAbort(keep)
    \/ JsOomUpTo(MaxOomHeap)
    \/ EvalWait
    \/ ExitRead
    \/ SendShutdown
    \/ \E reason \in CallerReasons, force \in BOOLEAN : ShutdownBegin(reason, force)
    \/ ShutdownFinish
    \/ OpComplete

SpecVMOom == InitVM /\ [][NextVMOom]_vars

\* new versions of the guild's scripts, and the lists UnloadScripts is sent
UpdatedScripts == {ScriptVersion(id, good, 2) : id \in ScriptIds, good \in BOOLEAN}
UnloadLists == {<<Script(1, TRUE)>>, <<Script(2, TRUE)>>}

\* The VM when it is sent LoadScript, UpdateScript and UnloadScripts commands:
\* no Restart command, no DispatchEvent, no near-heap-limit callback.
NextVMScripts ==
    \/ \E l \in ScriptLists : VmStart(l)
    \/ \E load_ok \in BOOLEAN : RunScript(load_ok)
    \/ RunScriptsDone
    \/ RunEnter
    \/ LoopCheck
    \/ TickWakeup
    \/ CmdLoadScript
    \/ CmdUpdateScript
    \/ CmdUnloadScripts
    \/ TickEventLoop
    \/ TickCompleted
    \/ \E ok \in BOOLEAN, ev_next \in {"idle", "pending"} : JsFinish(ok, ev_next)
    \/ \E keep \in BOOLEAN : JsAbort(keep)
    \/ EvalWait
    \/ DrainPoll
    \/ DrainTimeout
    \/ RestartSwap
    \/ RestartEmit
    \/ Restarted
    \/ ExitRead
    \/ SendShutdown
    \/ \E reason \in CallerReasons, force \in BOOLEAN : ShutdownBegin(reason, force)
    \/ ShutdownFinish
    \/ SendLoadScript(Script(2, TRUE))
    \/ \E sc \in UpdatedScripts : SendUpdateScript(sc)
    \/ \E l \in UnloadLists : SendUnloadScripts(l)
    \/ OpComplete

SpecVMScripts == InitVM /\ [][NextVMScripts]_vars

----------------------------------------------------------------------------
(* Claims about the VM *)

ShutdownSent == \E i \in 1 .. Len(tx) : tx[i].kind = "Shutdown"

\* C5: a Shutdown event carries a concrete reason exactly if a shutdown_vm
\* call found an interpreter handle registered, and then it is the reason of
\* such a call; otherwise it carries Unknown. The handle's shutdown_reason is
\* None exactly as long as no call has found a handle.
C5_ShutdownReason ==
    /\ \A i \in 1 .. Len(tx) : tx[i].kind = "Shutdown" =>
         /\ (tx[i].reason # Unknown) <=> (accepted # {})
         /\ tx[i].reason # Unknown => tx[i].reason \in accepted
    /\ (shutdown_reason = NoReason) <=> (accepted = {})
    /\ shutdown_reason # NoReason => shutdown_reason \in accepted

\* one external call came before the handle was registered and was dropped,
\* the near-heap-limit callback's call was taken, and Shutdown carries its reason
C5_Witness ==
    /\ sh_calls = 1
    /\ accepted = {"OutOfMemory"}
    /\ \E i \in 1 .. Len(tx) : tx[i] = EvShutdown("OutOfMemory")

\* C6 as stated: once a forced shutdown_vm call that found a handle has
\* returned, the VM eventually sends Shutdown.
C6_ForcedTerminationBounded == forced ~> ShutdownSent

\* C7 as stated, in its finite form: a Shutdown sent after the near-heap-limit
\* callback has fired carries OutOfMemory.
C7_OomShutdownReason ==
    \A i \in 1 .. Len(tx) :
        (tx[i].kind = "Shutdown" /\ oom_calls > 0) => tx[i].reason = "OutOfMemory"

\* C8: when restart returns, every ScriptState in the store was created by
\* this restart from a script of new_scripts that compiles, every such script
\* is in the store, the isolate is a new one whose handle is registered, and
\* its heap limit is the configured one unless its own callback has raised it.
C8_RestartIsolation ==
    vm_pc = "restarted" =>
        /\ \A i \in 1 .. Len(script_store) :
             /\ script_store[i].inc = incarnation
             /\ script_store[i].script \in Range(new_scripts)
             /\ script_store[i].script.good
        /\ \A j \in 1 .. Len(new_scripts) :
             new_scripts[j].good => StoreIndex(script_store, new_scripts[j].id) # 0
        /\ runtime = incarnation + 1
        /\ isolate_handle = runtime
        /\ (heap_limit # InitialHeapLimit => runtime \in oom_on)

\* a restart has returned whose list held a script that does not compile
C8_Witness ==
    /\ vm_pc = "restarted"
    /\ script_store # <<>>
    /\ Len(new_scripts) > Len(script_store)

DispatchedIds ==
    LET d == SelectSeq(tx, LAMBDA e : e.kind = "DispatchedEvent")
    IN  [i \in 1 .. Len(d) |-> d[i].evt_id]

\* C9: the handlers are called in the order the DispatchEvent commands were
\* sent (evt_ids grow in sending order), DispatchedEvent is sent in that order
\* and at most once per command, and it has been sent when the handler is
\* called.
C9_DispatchOrder ==
    /\ \A i, j \in 1 .. Len(handled) : i < j => handled[i] < handled[j]
    /\ \A i, j \in 1 .. Len(DispatchedIds) :
         i < j => DispatchedIds[i] < DispatchedIds[j]
    /\ \A i \in 1 .. Len(handled) : handled[i] \in Range(DispatchedIds)
    /\ cur_evt # 0 => cur_evt \in Range(DispatchedIds)

\* two events were handled with a restart handled between them
C9_Witness ==
    /\ handled = <<1, 3>>
    /\ incarnation = 1
    /\ runtime = 2

\* C14: effect of shutdown_vm(reason, force). With a handle registered,
\* shutdown_reason becomes reason, terminated becomes true and
\* terminate_execution is called if and only if force; with no handle registered,
\* shutdown_reason is None and terminated is as before; in both cases exactly one
\* wakeup is sent, at the end of the call.
C14_ShutdownEffect ==
    [][ /\ \A reason \in CallerReasons, force \in BOOLEAN :
             ShutdownBegin(reason, force) =>
               /\ IF isolate_handle # NoHandle
                  THEN /\ shutdown_reason' = reason
                       /\ terminated'
                       /\ sh_force' = force
                  ELSE /\ shutdown_reason' = NoReason
                       /\ terminated' = terminated
                       /\ sh_force' = FALSE
               /\ wakeups' = wakeups /\ term_pending' = term_pending
        /\ ShutdownFinish =>
               /\ wakeups' = wakeups + 1
               /\ forced' = (forced \/ sh_force)
               /\ isolate_handle = runtime => term_pending' = (term_pending \/ sh_force)
               /\ UNCHANGED <<shutdown_reason, terminated>>
      ]_vars

\* C14 witness: a shutdown_vm call made before the handle was registered has
\* returned: no reason, terminated not set, one wakeup
C14_Witness ==
    /\ sh_calls = 1 /\ sh_pc = "idle"
    /\ isolate_handle = NoHandle
    /\ shutdown_reason = NoReason /\ ~terminated /\ wakeups = 1

\* the LoadScript command the VM is about to handle
LoadCmdScript == rx[RecvIndex(rx)].script

StoredCompiled == \A i \in 1 .. Len(script_store) : script_store[i].script.good

\* C15: a LoadScript whose compilation fails changes nothing but the tenant log:
\* no entry is added to or replaced in the script store (every stored script is
\* successfully compiled), terminated is not set and the run loop goes on; a
\* LoadScript of a valid script, also after such a failure, is compiled, stored
\* and, when its module loads, marked Loaded and evaluated.
C15_CompileFailureSurvives ==
    [][ /\ StoredCompiled'
        /\ (CmdLoadScript /\ ~LoadCmdScript.good) =>
              /\ guild_log' = guild_log + 1
              /\ vm_pc' = "loop"
              /\ UNCHANGED <<script_store, terminated, shutdown_reason, tx,
                             runtime, isolate_handle, wakeups>>
        /\ (CmdLoadScript /\ LoadCmdScript.good) =>
              /\ StoreIndex(script_store', LoadCmdScript.id) # 0
              /\ script_store'[StoreIndex(script_store', LoadCmdScript.id)]
                     = ScriptState(LoadCmdScript, incarnation)
              /\ rs_todo' = <<LoadCmdScript.id>> /\ vm_pc' = "run_script"
              /\ UNCHANGED <<guild_log, terminated>>
        /\ (RunScript(TRUE) /\ rs_cont = "cmd") =>
              /\ script_store'[StoreIndex(script_store', Head(rs_todo))].state
                     = "Loaded"
              /\ vm_pc' = "js" /\ js_ctx' = "eval"
      ]_vars

\* C15 witness: the VM was created with a script list that compiles, a
\* LoadScript has failed to compile (one log entry), and script 2, sent again in
\* a later LoadScript, is stored and Loaded; the VM has not been told to stop
C15_Witness ==
    /\ new_scripts = <<Script(1, TRUE)>> /\ guild_log = 1
    /\ cmds_sent.script = 2 /\ rx = <<>>
    /\ StoreIndex(script_store, 2) # 0
    /\ script_store[StoreIndex(script_store, 2)].state = "Loaded"
    /\ vm_pc = "tick" /\ ~terminated

\* C20 as stated: on the force path with a handle registered, shutdown_vm calls
\* terminate_execution before it sets terminated, so whoever observes
\* terminated = true, set by a forced call (no other call has been made),
\* observes that terminate_execution has been called.
C20_TerminateBeforeTerminated ==
    (terminated /\ sh_pc = "locked" /\ sh_force /\ oom_calls = 0) => forced

\* ---- the end of run
\* the VM gets to the send of Shutdown in this step
ReachesSend == vm_pc # "send" /\ vm_pc' = "send"

\* C21: whenever the run loop has exited, for every shutdown reason, the VM
\* runs stop_vm before it emits Shutdown(reason): the send of Shutdown is
\* reached only out of stop_vm.
C21_StopVmBeforeShutdown == [][ReachesSend => drain_for = "exit"]_vars

\* C21, amended: the send of Shutdown is reached out of stop_vm exactly when
\* the reason read after the loop is ThreadTermination; for OutOfMemory, any
\* other reason and no reason the VM goes from the loop to the send directly.
C21_StopVmOnlyForThreadTermination ==
    [][ReachesSend =>
         (drain_for = "exit" <=> exit_reason' = "ThreadTermination")]_vars

\* Shutdown(ThreadTermination) has been emitted, after stop_vm
C21_Witness ==
    /\ vm_pc = "done"
    /\ exit_reason = "ThreadTermination"
    /\ tx # <<>>
    /\ tx[Len(tx)] = EvShutdown("ThreadTermination")

\* ---- script commands
\* the script, or the script list, of the command the tick is about to receive
NextCmd == rx[RecvIndex(rx)]
RestartBegins ==
    /\ vm_pc' = "drain"
    /\ drain_for' = "restart"
    /\ incarnation' = incarnation + 1

\* C22: UpdateScript(s) replaces the script with the id of s in the VM's
\* script set and then restarts the VM, for every script s, also one whose id
\* is not in the store (its previous version failed to compile or it was
\* never loaded): the restart begins with a list that holds s and no other
\* version of that id.
C22_UpdateReplacesAndRestarts ==
    [][CmdUpdateScript =>
         /\ RestartBegins
         /\ \A sc \in Range(new_scripts') :
                sc.id = NextCmd.script.id => sc = NextCmd.script
         /\ NextCmd.script \in Range(new_scripts')]_vars

\* C23: UnloadScripts(set) always restarts the VM; the list the restart is
\* given is the scripts of the store, in their order, without those whose id
\* is in set, and when the restart is over the store holds exactly the
\* scripts of that list (all of which compile), created by the new
\* incarnation.
C23_UnloadKeepsTheRest ==
    /\ [][CmdUnloadScripts =>
            /\ RestartBegins
            /\ Range(new_scripts') =
                  {sc \in Range(StoreScripts(script_store)) :
                     \A g \in Range(NextCmd.scripts) : g.id # sc.id}
            /\ Len(new_scripts') = Cardinality(Range(new_scripts'))
            /\ \A sc \in Range(new_scripts') : sc.good]_vars
    /\ [](vm_pc = "restarted" =>
            /\ Range(StoreScripts(script_store)) =
                  {sc \in Range(new_scripts) : sc.good}
            /\ \A i \in 1 .. Len(script_store) :
                  script_store[i].inc = incarnation)

\* script 2 was loaded, script 1 was unloaded, and the restart is over: the
\* store of the new incarnation holds script 2 alone
C23_Witness ==
    /\ vm_pc = "restarted"
    /\ incarnation = 1
    /\ StoreScripts(script_store) = <<Script(2, TRUE)>>
    /\ new_scripts = <<Script(2, TRUE)>>

\* load_state of the script id in the store st, "absent" if st holds no such
\* script
LoadStateOf(st, id) ==
    IF StoreIndex(st, id) = 0 THEN "absent" ELSE st[StoreIndex(st, id)].state

\* C24: a compile error during LoadScript marks the script Failed: when the
\* command has been handled, the load_state of its script in the store is
\* Failed.
C24_CompileErrorMarksFailed ==
    [][CmdLoadScript /\ ~NextCmd.script.good =>
         LoadStateOf(script_store', NextCmd.script.id) = "Failed"]_vars

\* ---- run_script
\* run_script does not skip the script at the head of rs_todo
RunsHead ==
    /\ vm_pc = "run_script"
    /\ rs_todo # <<>>
    /\ StoreIndex(script_store, Head(rs_todo)) # 0
    /\ ~is_failed_or_loaded(script_store, Head(rs_todo))
\* this step is run_script with a load_side_module that fails
LoadError == RunsHead /\ RunScript(FALSE)
\* this step is the evaluation of the module ending with an error
EvalError ==
    /\ vm_pc = "js"
    /\ js_ctx = "eval"
    /\ \E ev_next \in {"idle", "pending"} : JsFinish(FALSE, ev_next)

\* C25: load errors and evaluate errors both mark the script Failed and are
\* logged, and the VM keeps running (neither terminated nor the shutdown
\* reason changes, run_script goes on with the next script); a script is
\* Loaded only when its evaluation was started and did not error.
C25_LoadAndEvalErrorsMarkFailed ==
    [][/\ LoadError =>
            /\ LoadStateOf(script_store', Head(rs_todo)) = "Failed"
            /\ err_log' = "load"
            /\ vm_pc' = "run_script"
            /\ UNCHANGED <<terminated, shutdown_reason>>
       /\ EvalError =>
            /\ LoadStateOf(script_store', Head(rs_todo)) = "Failed"
            /\ err_log' = "eval"
            /\ vm_pc' = "run_script"
            /\ UNCHANGED <<terminated, shutdown_reason>>]_vars

\* this step is run_script on a script that is Loaded or Failed
RunsLoadedOrFailed ==
    /\ vm_pc = "run_script"
    /\ rs_todo # <<>>
    /\ is_failed_or_loaded(script_store, Head(rs_todo))
    /\ \E load_ok \in BOOLEAN : RunScript(load_ok)

\* C26: within one incarnation the module of a script id is loaded and
\* evaluated at most once, and run_script on a script whose load_state is
\* Loaded or Failed does not enter the interpreter and leaves the store
\* unchanged.
C26_LoadedAtMostOnce ==
    /\ [](\A id \in ScriptIds : loads[id] <= 1)
    /\ [][RunsLoadedOrFailed =>
            /\ vm_pc' = "run_script"
            /\ UNCHANGED <<script_store, loads, cell, work>>]_vars

\* ---- the tick
\* this step is a poll of the TickFuture that does not return Pending
TickStep == vm_pc = "tick" /\ vm_pc' # "tick"
FinishedSent == \E i \in 1 .. Len(tx) : tx[i] = EvFinished

\* C27: tick priority. A ready wakeup makes the tick return Continue before
\* the command channel is looked at; else a ready command makes it return
\* Command before the interpreter is looked at; the IsolateCell is entered
\* and the event loop polled only when neither channel is ready.
C27_TickPriority ==
    [][TickStep =>
         /\ wakeups > 0 =>
               /\ wakeups' = wakeups - 1
               /\ vm_pc' = "loop"
               /\ UNCHANGED <<rx, tx, ev, cell>>
         /\ wakeups = 0 /\ rx # <<>> =>
               /\ rx' = Tail(rx)
               /\ vm_pc' # "js"
               /\ UNCHANGED <<wakeups, ev, cell>>
         /\ (vm_pc' = "js" \/ tx' = Append(tx, EvFinished)) =>
               wakeups = 0 /\ rx = <<>> /\ ~rx_closed]_vars

\* the wakeup of a shutdown_vm call was taken by a tick while a command was
\* queued and a callback was ready to run
C27_Witness ==
    /\ vm_pc = "exit"
    /\ sh_calls = 1 /\ sh_pc = "idle" /\ wakeups = 0
    /\ Len(rx) = MaxDispatch
    /\ ev = "ready"

\* C28: VmFinished is emitted once per completion: once a tick has returned
\* Completed, no further VmFinished is emitted while the interpreter stays
\* idle, whatever ticks come in between.
C28_FinishedOncePerCompletion ==
    [][tx' = Append(tx, EvFinished) /\ FinishedSent => work]_vars

\* this step is a tick whose event loop poll ends with an error
VmErrorStep ==
    /\ vm_pc = "js"
    /\ js_ctx = "tick"
    /\ \/ \E ev_next \in {"idle", "pending"} : JsFinish(FALSE, ev_next)
       \/ \E keep \in BOOLEAN : JsAbort(keep)

\* C29: a script runtime error (VmError) is never fatal: it is logged, the
\* terminated flag and the shutdown reason are unchanged, no event is sent
\* because of it, and the loop goes on: Shutdown is sent only with the
\* terminated flag set, and the loop leaves for the next tick as long as the
\* flag is not set.
C29_VmErrorNotFatal ==
    /\ [][VmErrorStep =>
            /\ err_log' = "script"
            /\ vm_pc' = "loop"
            /\ UNCHANGED <<terminated, shutdown_reason, tx, script_store>>]_vars
    /\ [][vm_pc = "loop" /\ vm_pc' # "loop" =>
            vm_pc' = IF terminated THEN "exit" ELSE "tick"]_vars
    /\ [](ShutdownSent => terminated)

\* a script error has just been logged and the VM is back in its loop, not
\* terminated
C29_Witness ==
    /\ err_log = "script"
    /\ vm_pc = "loop"
    /\ ~terminated
    /\ shutdown_reason = NoReason

\* where the VM task awaits: the TickFuture, CompleteModuleEval and
\* RunUntilCompletion
SuspensionPoints == {"tick", "eval_wait", "drain"}

\* C30: interpreter exclusion. No two VMs are inside their interpreters at
\* once; this VM is inside its interpreter exactly while it holds the
\* IsolateCell guard; it holds no guard at a suspension point, in particular
\* not while it awaits the module evaluation in run_script.
C30_InterpreterExclusion ==
    /\ Cardinality(cell) <= 1
    /\ vm_pc = "js" <=> "self" \in cell
    /\ vm_pc \in SuspensionPoints => "self" \notin cell

\* this VM awaits the evaluation of a module while the VM of another guild
\* is inside its interpreter
C30_Witness ==
    /\ vm_pc = "eval_wait"
    /\ ev = "pending"
    /\ cell = {"other"}

\* ---- the near-heap-limit callback
\* this step is an invocation of the callback
OomStep == oom_calls' = oom_calls + 1

\* C31: every invocation of the near-heap-limit callback calls
\* shutdown_vm(OutOfMemory, true): the reason is OutOfMemory, terminated is
\* set, terminate_execution is requested on the registered isolate and one
\* wakeup is sent. The first invocation returns current + initial, every
\* later one the current limit, so the limit of an isolate is raised at most
\* once and is never above twice the initial limit.
C31_HeapLimitRaisedOnce ==
    /\ [][OomStep =>
            /\ isolate_handle # NoHandle
            /\ shutdown_reason' = "OutOfMemory"
            /\ terminated'
            /\ isolate_handle = runtime => term_pending'
            /\ wakeups' = wakeups + 1
            /\ heap_limit' = IF heap_limit = InitialHeapLimit
                              THEN heap_limit + InitialHeapLimit
                              ELSE heap_limit]_vars
    /\ [][heap_limit' > heap_limit => heap_limit = InitialHeapLimit]_vars
    /\ [](heap_limit \in {InitialHeapLimit, 2 * InitialHeapLimit})

\* the callback has fired more than once on one isolate, and the limit is
\* twice the initial one
C31_Witness ==
    /\ oom_calls = MaxOomHeap
    /\ heap_limit = 2 * InitialHeapLimit

\* C35: a forced shutdown_vm that finds a registered handle finds the handle
\* of the isolate the VM owns at that moment, so that its terminate_execution
\* reaches the interpreter that executes; also in the middle of a restart.
C35_ForcedShutdownHitsCurrentIsolate ==
    [][\A reason \in CallerReasons :
          (ShutdownBegin(reason, TRUE) /\ isolate_handle # NoHandle)
              => isolate_handle = runtime]_vars

\* C36: terminated never goes back to false, whatever restart or a later
\* shutdown_vm does, and whenever terminated is true a handle is registered
\* and shutdown_reason is set.
C36_TerminatedMonotone ==
    /\ [][terminated => terminated']_vars
    /\ [](terminated => (isolate_handle # NoHandle /\ shutdown_reason # NoReason))

\* terminated was stored with the handle of the first isolate, and restart
\* has replaced the isolate since
C36_Witness ==
    /\ terminated
    /\ vm_pc = "restart_emit"
    /\ isolate_handle = 1
    /\ runtime = 2
    /\ shutdown_reason # NoReason

\* C37: Shutdown is sent at most once and only with terminated true; it is
\* the last event the VM sends (no DispatchedEvent, no VmFinished after it),
\* and once it is sent no queued command is received or handled any more.
C37_ShutdownIsLast ==
    /\ [](\A i \in 1 .. Len(tx) :
             tx[i].kind = "Shutdown" => (i = Len(tx) /\ terminated))
    /\ [][ShutdownSent =>
             /\ UNCHANGED <<tx, handled, cur_evt, script_store>>
             /\ Len(rx') >= Len(rx)
             /\ SubSeq(rx', 1, Len(rx)) = rx]_vars

\* Shutdown was sent after an event was dispatched and VmFinished was sent,
\* and a command is still queued
C37_Witness ==
    /\ ShutdownSent
    /\ rx # <<>>
    /\ \E i \in 1 .. Len(tx) : tx[i].kind = "DispatchedEvent"
    /\ \E i \in 1 .. Len(tx) : tx[i].kind = "VmFinished"

\* C38: once every command sender is dropped the VM does not shut itself
\* down. A tick that finds the closed channel empty (and no wakeup) returns
\* Command(None) and changes nothing; no tick polls the event loop any more;
\* Shutdown is sent only with terminated true, the run loop is left only
\* with terminated true, and only shutdown_vm makes it true.
C38_ClosedChannelKeepsRunning ==
    /\ [][(rx_closed /\ TickStep) =>
             /\ vm_pc' # "js"
             /\ UNCHANGED <<ev, cell, work, script_store, terminated>>
             /\ ~(tx' # tx /\ tx'[Len(tx')].kind \in {"VmFinished", "Shutdown"})
             /\ (wakeups = 0 /\ rx = <<>>) =>
                    /\ vm_pc' = "loop"
                    /\ UNCHANGED <<rx, tx, wakeups, handled, cur_evt>>]_vars
    /\ [][(vm_pc' \in {"exit", "drain", "send", "done"}
           /\ vm_pc \notin {"exit", "drain", "send", "done"}) => terminated]_vars
    /\ [](ShutdownSent => terminated)
    /\ [][(terminated' /\ ~terminated) =>
             \E reason \in CallerReasons, force \in BOOLEAN :
                 ShutdownBegin(reason, force)]_vars

\* the senders are gone, the VM is in a tick with a callback ready to run
\* and nothing to receive, and nothing has terminated it
C38_Witness ==
    /\ rx_closed
    /\ vm_pc = "tick"
    /\ rx = <<>> /\ wakeups = 0
    /\ ev = "ready"
    /\ ~terminated
    /\ FinishedSent

\* C40: pending never holds the same task id twice, so that one
\* ack_triggered_task(id) leaves no occurrence of id in pending.
C40_PendingHasNoDuplicates ==
    /\ [](NoDuplicates(pending))
    /\ [][\A id \in 1 .. MaxTasks :
             AckBegin(id) => ~Contains(pending', id)]_vars

\* two tasks were handed out and one of them has been acked: the other one
\* is all that pending holds
C40_Witness ==
    /\ tm_pc = "ack"
    /\ Len(pending) = 1
    /\ ~Contains(pending, ack_id)
    /\ ack_id \in StoredIds

====
